---- MODULE Spec2Model ----
(***************************************************************************)
(* Avatar rendering layer and game scene of the VR sample application.     *)
(*                                                                         *)
(* Sources modelled:                                                       *)
(*   src/MinimalVR-ASM2/Minimal/Avatar.cpp  (avatar helpers, binder,       *)
(*                                           render traversal, handlers)   *)
(*   src/unnamed/part_000                   (the same helpers plus the     *)
(*                                           GlfwApp/RiftApp frame loop    *)
(*                                           and the ColorCubeScene game)  *)
(*                                                                         *)
(* The module holds twelve specifications over one set of variables; each  *)
(* one drives one part of the program and leaves the other parts' state    *)
(* at its initial value:                                                   *)
(*   SpecPose       _computeWorldPose over a parent-indexed joint array    *)
(*   SpecRoundTrip  _glmFromOvrAvatarTransform, _ovrAvatarTransformFromGlm *)
(*   SpecReflection _computeReflectionMatrix applied to a point            *)
(*   SpecUpdate     _updateAvatar (live / packet playback)                 *)
(*   SpecBinder     asset cache, asset-loaded handler, material binder     *)
(*   SpecTexture    _loadTexture over a catalogue of texture assets        *)
(*   SpecRender     render traversal of an avatar's components and parts   *)
(*   SpecProjector  the same traversal over avatars with placed parts,     *)
(*                  skinned joints and projectors                          *)
(*   SpecJoints     the same traversal over skinned poses with one or two  *)
(*                  roots, for the joint debug lines                       *)
(*   SpecFrame      GlfwApp::run frame loop with the avatar message queue  *)
(*   SpecFrameLive  the same loop for a window that is never closed, with  *)
(*                  fairness of the main thread and of the SDK's answers   *)
(*   SpecScene      RiftApp::draw for the game: controller input, then     *)
(*                  ExampleApp::renderScene for each eye                   *)
(*                                                                         *)
(* Numbers.  glm::mat4 is modelled as an exact 4x4 integer matrix; the     *)
(* transforms drawn as inputs have integer positions and scales and unit   *)
(* quaternions with integer components, for which glm's float arithmetic   *)
(* is exact.  An inverse is a matrix of fractions, kept as an integer      *)
(* matrix over one denominator in lowest terms.  Times are counted in      *)
(* ticks of half a second (floats that are exact multiples of 0.5 add and  *)
(* compare exactly).                                                       *)
(***************************************************************************)
EXTENDS Integers, Sequences, FiniteSets, TLC

VARIABLES
    \* ---- SpecPose ----
    localPose,      \* ovrAvatarSkinnedMeshPose: jointCount, jointTransform, jointParents
    worldPose,      \* glm::mat4* worldPose: the caller's output buffer
    posePc,         \* "ready" before the call, "done" after it
    ovrTransform,   \* ovrAvatarTransform: the transform a matrix is built from
    target,         \* ovrAvatarTransform* target of _ovrAvatarTransformFromGlm
    reflectionPlane, \* glm::vec4 reflectionPlane: normal x, y, z and distance w
    eyeWorld,       \* glm::vec3 eyeWorld: the point the reflection is applied to
    reflection,     \* glm::mat4 reflection and reflection * vec4(eyeWorld, 1)
    \* ---- SpecUpdate ----
    packetPlaybackTime, \* float *packetPlaybackTime: the caller's playback cursor (ticks)
    sdkCalls,       \* the avatar SDK calls made by the latest _updateAvatar, in order
    updateArgs,     \* the arguments of the latest _updateAvatar and the cursor before it
    \* ---- SpecBinder, SpecRender, SpecFrame: the static state of Avatar.cpp ----
    _avatar,        \* static ovrAvatar* _avatar: NoAvatar or the avatar's components
    _loadingAssets, \* static int _loadingAssets
    _assetMap,      \* static std::map<ovrAvatarAssetID, void*> _assetMap
    gl,             \* the GL context: object name counters, depth/color state, uniforms
    bindLog,        \* glBindTexture calls of the latest binder/render call, in order
    drawLog,        \* glDrawElements/glDrawArrays calls of the latest render call, in order
    visitLog,       \* components requested and parts dispatched by the latest render call
    crashed,        \* the process died on an invalid memory access
    callArgs,       \* the arguments of the latest binder/render call and the state before it
    pendingLoads,   \* asset ids passed to ovrAvatarAsset_BeginLoading and not yet answered
    lastStored,     \* per asset id, what the latest handled asset-loaded message stored
    \* ---- SpecFrame: GlfwApp::run, RiftApp::update / draw, the avatar SDK ----
    messageQueue,   \* the SDK's queue of messages not yet popped
    popped,         \* ovrAvatarMessage* message of RiftApp::update (NoMessage: none held)
    framePc,        \* where GlfwApp::run stands
    frame,          \* int frame
    eventLog,       \* pops, empty polls, handler calls, frees and draws so far, in order
    sdk,            \* the avatar SDK: requests it has received and not yet answered
    \* ---- SpecScene: the globals of part_000 and the ColorCubeScene ----
    win,            \* bool win
    lost,           \* bool lost
    reset_flag,     \* bool reset_flag
    left_trig,      \* bool left_trig
    right_trig,     \* bool right_trig
    buttonMask,     \* inputStateLeft.buttonMask, inputStateRight.buttonMask of the latest draw
    co2_arr,        \* vector<Model> co2_arr of cubeScene: "CO2" or "O2" per molecule
    o2_arr,         \* vector<Model> o2_arr of cubeScene
    scenePc         \* where RiftApp::draw stands: inputs, left eye, right eye

poseVars == <<localPose, worldPose, posePc, ovrTransform, target,
              reflectionPlane, eyeWorld, reflection>>

updateVars == <<packetPlaybackTime, sdkCalls, updateArgs>>

appVars == <<_avatar, _loadingAssets, _assetMap, gl, bindLog, drawLog, visitLog, crashed,
             callArgs, pendingLoads, lastStored>>

frameVars == <<messageQueue, popped, framePc, frame, eventLog, sdk>>

sceneVars == <<win, lost, reset_flag, left_trig, right_trig, buttonMask, co2_arr, o2_arr,
               scenePc>>

vars == <<localPose, worldPose, posePc, ovrTransform, target,
          reflectionPlane, eyeWorld, reflection, packetPlaybackTime, sdkCalls, updateArgs,
          _avatar, _loadingAssets, _assetMap, gl, bindLog, drawLog, visitLog, crashed,
          callArgs, pendingLoads, lastStored,
          messageQueue, popped, framePc, frame, eventLog, sdk,
          win, lost, reset_flag, left_trig, right_trig, buttonMask, co2_arr, o2_arr,
          scenePc>>

\* Body with its argument bound to value: value is computed once however often
\* Body uses it (a local variable of the code).
With(value, Body(_)) == Body(value)

(***************************************************************************)
(* Bounds                                                                  *)
(***************************************************************************)
MaxJoints == 3

\* Longest frame time and longest recorded packet, in ticks of 0.5 s.
MaxDelta == 3

MaxDuration == 4

\* Longest list of assets an avatar references (ovrAvatar_GetReferencedAssetCount).
MaxRefs == 2

\* Frames GlfwApp::run goes through before the window is closed.
MaxFrames == 3

\* Messages of a type RiftApp::update has no case for.
MaxOtherMessages == 1

\* Most molecules a scene holds: no further CO2 molecule is spawned beyond it.
MaxMolecules == 10

\* Capacity of the material layer table.  The SDK header that sets it is not
\* part of the repository; the code is written for any value.
OVR_AVATAR_MAX_MATERIAL_LAYER_COUNT == 3

(***************************************************************************)
(* glm: 4x4 matrices, written row by row (M[r][c], mathematical            *)
(* convention; v' = M * v for column vectors).                             *)
(***************************************************************************)
Idx4 == 1..4

mat4Identity ==
    << <<1, 0, 0, 0>>,
       <<0, 1, 0, 0>>,
       <<0, 0, 1, 0>>,
       <<0, 0, 0, 1>> >>

mat4Zero ==
    << <<0, 0, 0, 0>>,
       <<0, 0, 0, 0>>,
       <<0, 0, 0, 0>>,
       <<0, 0, 0, 0>> >>

\* The matrix with entry(r, c) in row r, column c, written out as tuples.
mat4Of(entry(_, _)) ==
    << <<entry(1, 1), entry(1, 2), entry(1, 3), entry(1, 4)>>,
       <<entry(2, 1), entry(2, 2), entry(2, 3), entry(2, 4)>>,
       <<entry(3, 1), entry(3, 2), entry(3, 3), entry(3, 4)>>,
       <<entry(4, 1), entry(4, 2), entry(4, 3), entry(4, 4)>> >>

\* glm::mat4 operator*(a, b).  The sixteen sums are spared when a factor is
\* the identity: the product is then the other factor.
mat4Mul(a, b) ==
    LET entry(r, c) ==
            a[r][1] * b[1][c] + a[r][2] * b[2][c] + a[r][3] * b[3][c] + a[r][4] * b[4][c]
    IN  IF a = mat4Identity THEN b
        ELSE IF b = mat4Identity THEN a
        ELSE mat4Of(entry)

\* glm::translate(vec3)
glmTranslate(p) ==
    << <<1, 0, 0, p[1]>>,
       <<0, 1, 0, p[2]>>,
       <<0, 0, 1, p[3]>>,
       <<0, 0, 0, 1>> >>

\* glm::scale(vec3)
glmScale(s) ==
    << <<s[1], 0, 0, 0>>,
       <<0, s[2], 0, 0>>,
       <<0, 0, s[3], 0>>,
       <<0, 0, 0, 1>> >>

\* glm::mat4_cast(quat), quat given as <<w, x, y, z>>
glmMat4Cast(q) ==
    LET w == q[1]
        x == q[2]
        y == q[3]
        z == q[4]
    IN  << <<1 - 2 * (y * y + z * z), 2 * (x * y - w * z), 2 * (x * z + w * y), 0>>,
           <<2 * (x * y + w * z), 1 - 2 * (x * x + z * z), 2 * (y * z - w * x), 0>>,
           <<2 * (x * z - w * y), 2 * (y * z + w * x), 1 - 2 * (x * x + y * y), 0>>,
           <<0, 0, 0, 1>> >>

\* the translation column of a matrix: glm::vec3(m[3])
mat4Position(m) == <<m[1][4], m[2][4], m[3][4]>>

(***************************************************************************)
(* glm::inverse.  The inverse of an integer matrix has fractions for       *)
(* entries: a matrix of fractions is kept as an integer matrix over one    *)
(* common denominator, in lowest terms (den = 0: the entries are not       *)
(* finite).  The inputs of the model have determinants that are powers of  *)
(* two, for which the float arithmetic of glm is exact.                    *)
(***************************************************************************)
Abs(x) == IF x < 0 THEN 0 - x ELSE x

RECURSIVE Gcd(_, _)
Gcd(a, b) == IF b = 0 THEN a ELSE Gcd(b, a % b)

\* gcd of g and the entries k..16 of m, row by row
RECURSIVE gcdFrom(_, _, _)
gcdFrom(m, k, g) ==
    IF k > 16 THEN g
    ELSE gcdFrom(m, k + 1, Gcd(g, Abs(m[((k - 1) \div 4) + 1][((k - 1) % 4) + 1])))

Fraction(num, den) ==
    IF den = 0 THEN [num |-> num, den |-> 0]
    ELSE With(gcdFrom(num, 1, Abs(den)), LAMBDA g :
             LET sign == IF den < 0 THEN 0 - 1 ELSE 1
                 entry(r, c) == (sign * num[r][c]) \div g
             IN  [num |-> mat4Of(entry), den |-> Abs(den) \div g])

\* a glm::mat4 with integer entries
Whole(m) == [num |-> m, den |-> 1]

\* glm::mat4 operator*(a, b), a with integer entries
fracMul(a, b) == Fraction(mat4Mul(a, b.num), b.den)

\* The rows / columns left when row or column k is struck out.
Others(k) == CASE k = 1 -> <<2, 3, 4>>
               [] k = 2 -> <<1, 3, 4>>
               [] k = 3 -> <<1, 2, 4>>
               [] OTHER -> <<1, 2, 3>>

\* The signed 3x3 subdeterminant of m without row r and column c.
Cofactor(m, r, c) ==
    LET R == Others(r)
        C == Others(c)
        minor == m[R[1]][C[1]] * (m[R[2]][C[2]] * m[R[3]][C[3]] - m[R[2]][C[3]] * m[R[3]][C[2]])
               - m[R[1]][C[2]] * (m[R[2]][C[1]] * m[R[3]][C[3]] - m[R[2]][C[3]] * m[R[3]][C[1]])
               + m[R[1]][C[3]] * (m[R[2]][C[1]] * m[R[3]][C[2]] - m[R[2]][C[2]] * m[R[3]][C[1]])
    IN  IF (r + c) % 2 = 0 THEN minor ELSE 0 - minor

Determinant(m) ==
    m[1][1] * Cofactor(m, 1, 1) + m[1][2] * Cofactor(m, 1, 2)
        + m[1][3] * Cofactor(m, 1, 3) + m[1][4] * Cofactor(m, 1, 4)

\* Variant of the inverse that returns the matrix itself.
glmInverseSkipped(m) == Whole(m)

\* glm::inverse(m): the transposed cofactors over the determinant
glmInverse(m) ==
    LET entry(r, c) == Cofactor(m, c, r)
    IN  Fraction(mat4Of(entry), Determinant(m))

(***************************************************************************)
(* ovrAvatarTransform and _glmFromOvrAvatarTransform                       *)
(***************************************************************************)
Transform(p, q, s) == [position |-> p, orientation |-> q, scale |-> s]

IdentityTransform == Transform(<<0, 0, 0>>, <<1, 0, 0, 0>>, <<1, 1, 1>>)

\* *target before _ovrAvatarTransformFromGlm has written it
NoTarget == [written |-> FALSE]

\* *target = translate(position) * mat4_cast(orientation) * scale(scale)
_glmFromOvrAvatarTransform(transform) ==
    mat4Mul(mat4Mul(glmTranslate(transform.position),
                    glmMat4Cast(transform.orientation)),
            glmScale(transform.scale))

(***************************************************************************)
(* glm::decompose and _ovrAvatarTransformFromGlm.  Row[i] of decompose is  *)
(* column i of the upper 3x3 block.  Lengths are square roots: the inputs  *)
(* of the model (integer scales, quarter-free rotations) have columns of   *)
(* integer length, and every division below is exact for them.             *)
(***************************************************************************)
dot3(a, b) == a[1] * b[1] + a[2] * b[2] + a[3] * b[3]

cross3(a, b) ==
    <<a[2] * b[3] - a[3] * b[2], a[3] * b[1] - a[1] * b[3], a[1] * b[2] - a[2] * b[1]>>

\* a + t * b (detail::combine with ascl = 1)
combine3(a, b, t) == <<a[1] + t * b[1], a[2] + t * b[2], a[3] + t * b[3]>>

negate3(a) == <<0 - a[1], 0 - a[2], 0 - a[3]>>

sqrtOf(n) == CHOOSE r \in 0..n : r * r <= n /\ (r + 1) * (r + 1) > n

length3(a) == sqrtOf(dot3(a, a))

\* v / length(v)
normalize3(a) ==
    LET len == length3(a) IN <<a[1] \div len, a[2] \div len, a[3] \div len>>

column3(m, c) == <<m[1][c], m[2][c], m[3][c]>>

\* Variant of the test that never finds the coordinate system flipped.
coordinateFlipNever(row) == FALSE

\* if (dot(Row[0], cross(Row[1], Row[2])) < 0): negate the scales and the rows
coordinateFlip(row) == dot3(row[1], cross3(row[2], row[3])) < 0

\* The quaternion <<w, x, y, z>> of the rotation with columns row[1..3].
quatOfRows(row) ==
    LET trace == row[1][1] + row[2][2] + row[3][3]
        i == IF row[3][3] > (IF row[2][2] > row[1][1] THEN row[2][2] ELSE row[1][1])
             THEN 3
             ELSE IF row[2][2] > row[1][1] THEN 2 ELSE 1
        j == (i % 3) + 1
        k == (j % 3) + 1
        root == IF trace > 0 THEN sqrtOf(trace + 1)
                ELSE sqrtOf(row[i][i] - row[j][j] - row[k][k] + 1)
        axis == [a \in 1..3 |->
                    IF a = i THEN root \div 2
                    ELSE (row[i][a] + row[a][i]) \div (2 * root)]
    IN  IF trace > 0
        THEN <<root \div 2,
               (row[2][3] - row[3][2]) \div (2 * root),
               (row[3][1] - row[1][3]) \div (2 * root),
               (row[1][2] - row[2][1]) \div (2 * root)>>
        ELSE <<(row[j][k] - row[k][j]) \div (2 * root), axis[1], axis[2], axis[3]>>

\* glm::decompose(matrix, scale, orientation, translation, skew, perspective)
\* for a matrix without perspective part: translation, then scale and
\* shear column by column (Gram-Schmidt), the flip test, the quaternion.
glmDecompose(matrix) ==
    LET scaleX == length3(column3(matrix, 1))
        row0 == normalize3(column3(matrix, 1))
        skewZ == dot3(row0, column3(matrix, 2))
        row1a == combine3(column3(matrix, 2), row0, 0 - skewZ)
        scaleY == length3(row1a)
        row1 == normalize3(row1a)
        skewY == dot3(row0, column3(matrix, 3))
        row2a == combine3(column3(matrix, 3), row0, 0 - skewY)
        skewX == dot3(row1, row2a)
        row2b == combine3(row2a, row1, 0 - skewX)
        scaleZ == length3(row2b)
        row2 == normalize3(row2b)
        flip == coordinateFlip(<<row0, row1, row2>>)
        row == IF flip THEN <<negate3(row0), negate3(row1), negate3(row2)>>
               ELSE <<row0, row1, row2>>
    IN  [translation |-> mat4Position(matrix),
         scale |-> IF flip THEN negate3(<<scaleX, scaleY, scaleZ>>)
                   ELSE <<scaleX, scaleY, scaleZ>>,
         orientation |-> quatOfRows(row)]

\* _ovrAvatarTransformFromGlm(matrix, target)
_ovrAvatarTransformFromGlm(matrix) ==
    LET parts == glmDecompose(matrix)
    IN  Transform(parts.translation, parts.orientation, parts.scale)

\* The joint transforms the inputs are drawn from: a pure translation (the
\* spec's scenario) and a translated half-turn about the x axis with a
\* non-uniform scale (does not commute with the translation).
translateY1 == Transform(<<0, 1, 0>>, <<1, 0, 0, 0>>, <<1, 1, 1>>)

turnXScaled == Transform(<<1, 0, 2>>, <<0, 1, 0, 0>>, <<1, 2, 1>>)

JointTransforms == {translateY1, turnXScaled}

\* What an unwritten slot of the output buffer may hold.
GarbageMatrices == {mat4Zero, glmTranslate(<<7, 7, 7>>)}

(***************************************************************************)
(* _computeWorldPose: one forward pass over the joints, index order.       *)
(***************************************************************************)
\* Variant with the product taken in the other order (local * parent).
RECURSIVE computeWorldPoseFromSwapped(_, _, _)
computeWorldPoseFromSwapped(pose, buf, i) ==
    IF i > pose.jointCount THEN buf
    ELSE LET local == _glmFromOvrAvatarTransform(pose.jointTransform[i])
             parentIndex == pose.jointParents[i]
             value == IF parentIndex < 0 THEN local
                      ELSE mat4Mul(local, buf[parentIndex + 1])
         IN  computeWorldPoseFromSwapped(pose, [buf EXCEPT ![i] = value], i + 1)

RECURSIVE computeWorldPoseFrom(_, _, _)
computeWorldPoseFrom(pose, buf, i) ==
    IF i > pose.jointCount THEN buf
    ELSE LET local == _glmFromOvrAvatarTransform(pose.jointTransform[i])
             parentIndex == pose.jointParents[i]
             value == IF parentIndex < 0 THEN local
                      ELSE mat4Mul(buf[parentIndex + 1], local)
         IN  computeWorldPoseFrom(pose, [buf EXCEPT ![i] = value], i + 1)

\* Joint i of the C array is element i + 1 of the sequences.
_computeWorldPose(pose, buf) == computeWorldPoseFrom(pose, buf, 1)

(***************************************************************************)
(* _computeReflectionMatrix.  glm::mat4's constructor of sixteen scalars   *)
(* takes them column by column: scalars 4c+1..4c+4 are column c (0-based). *)
(***************************************************************************)
glmMat4FromScalars(x) ==
    << <<x[1], x[5], x[9], x[13]>>,
       <<x[2], x[6], x[10], x[14]>>,
       <<x[3], x[7], x[11], x[15]>>,
       <<x[4], x[8], x[12], x[16]>> >>

\* Variant of the constructor that takes the scalars row by row.
glmMat4FromRows(x) ==
    << <<x[1], x[2], x[3], x[4]>>,
       <<x[5], x[6], x[7], x[8]>>,
       <<x[9], x[10], x[11], x[12]>>,
       <<x[13], x[14], x[15], x[16]>> >>

\* glm::mat4 * glm::vec4
mat4MulVec4(m, v) ==
    <<m[1][1] * v[1] + m[1][2] * v[2] + m[1][3] * v[3] + m[1][4] * v[4],
      m[2][1] * v[1] + m[2][2] * v[2] + m[2][3] * v[3] + m[2][4] * v[4],
      m[3][1] * v[1] + m[3][2] * v[2] + m[3][3] * v[3] + m[3][4] * v[4],
      m[4][1] * v[1] + m[4][2] * v[2] + m[4][3] * v[3] + m[4][4] * v[4]>>

\* plane = <<x, y, z, w>>: unit normal (x, y, z), distance w
_computeReflectionMatrix(plane) ==
    LET x == plane[1]
        y == plane[2]
        z == plane[3]
        w == plane[4]
    IN  glmMat4FromScalars(
            <<1 - 2 * x * x, (0 - 2) * x * y, (0 - 2) * x * z, (0 - 2) * w * x,
              (0 - 2) * y * x, 1 - 2 * y * y, (0 - 2) * y * z, (0 - 2) * w * y,
              (0 - 2) * z * x, (0 - 2) * z * y, 1 - 2 * z * z, (0 - 2) * w * z,
              0, 0, 0, 1>>)

(***************************************************************************)
(* Static state: asset cache, GL context                                   *)
(***************************************************************************)
NoAvatar == [present |-> FALSE]

\* A void* of the asset map: nullptr, a TextureData* or a MeshData*.
NullPtr == [kind |-> "null"]

TextureData(textureID) == [kind |-> "texture", textureID |-> textureID]

MeshData(vertexArray, elementCount, bindPose, inverseBindPose) ==
    [kind |-> "mesh", vertexArray |-> vertexArray, elementCount |-> elementCount,
     bindPose |-> bindPose, inverseBindPose |-> inverseBindPose]

\* What a read through an invalid pointer yields when the process survives it.
GarbageName == 99

\* Outcomes of an invalid memory access: the process dies, or reads garbage.
UBOutcomes == {"crash", "garbage"}

\* std::map::operator[]: the mapped value, nullptr for a key that is not there ...
MapGet(map, id) == IF id \in DOMAIN map THEN map[id] ELSE NullPtr

\* ... which operator[] then inserts.
MapTouch(map, id) == IF id \in DOMAIN map THEN map ELSE (id :> NullPtr) @@ map

\* _assetMap[id] = data
MapPut(map, id, data) == (id :> data) @@ map

\* Variant of the store that keeps an entry already present (std::map::insert).
MapPutIfAbsent(map, id, data) == IF id \in DOMAIN map THEN map ELSE (id :> data) @@ map

EmptyMap == <<>>

\* glDepthFunc, glDepthMask, glColorMaski as set on a fresh context, the
\* glGen* name counters, and the uniforms of the skinned mesh program.
LayerFields ==
    {"layerSamplerModes", "layerBlendModes", "layerMaskTypes", "layerColors",
     "layerSurfaces", "layerSurfaceIDs", "layerSurfaceScaleOffsets",
     "layerSampleParameters", "layerMaskParameters", "layerMaskAxes"}

LayerSlots == 1..OVR_AVATAR_MAX_MATERIAL_LAYER_COUNT

Vec4Zero == <<0, 0, 0, 0>>

VectorFields ==
    {"layerColors", "layerSurfaceScaleOffsets", "layerSampleParameters",
     "layerMaskParameters", "layerMaskAxes"}

ZeroOf(field) == IF field \in VectorFields THEN Vec4Zero ELSE 0

\* struct LayerUniforms after memset(&layerUniforms, 0, sizeof(layerUniforms))
ZeroLayerUniforms == [f \in LayerFields |-> [i \in LayerSlots |-> ZeroOf(f)]]

\* The bytes of the stack frame before the memset.
StackResidue ==
    [f \in LayerFields |->
        [i \in LayerSlots |-> IF f \in VectorFields THEN <<7, 7, 7, 7>> ELSE 7]]

GlFresh ==
    [nextTexture |-> 1,
     nextVertexArray |-> 1,
     depthFunc |-> "LESS",
     depthMask |-> TRUE,
     colorMask |-> TRUE,
     program |-> "none",
     boundVertexArray |-> 0,
     textureLevels |-> <<>>,
     samplers |-> <<>>,
     world |-> mat4Zero,
     meshPose |-> <<>>,
     useProjector |-> 0,
     projectorInv |-> Whole(mat4Zero),
     layerCount |-> 0,
     layerUniforms |-> ZeroLayerUniforms]

NoMessage == [present |-> FALSE]

\* The globals as initialized (part_000 100-104), no scene created.
IdleScene ==
    /\ win = FALSE
    /\ lost = FALSE
    /\ reset_flag = FALSE
    /\ left_trig = FALSE
    /\ right_trig = FALSE
    /\ buttonMask = <<0, 0>>
    /\ co2_arr = <<>>
    /\ o2_arr = <<>>
    /\ scenePc = "idle"

\* No frame loop: nothing requested from the SDK, nothing queued.
IdleFrame ==
    /\ messageQueue = <<>>
    /\ popped = NoMessage
    /\ framePc = "idle"
    /\ frame = 0
    /\ eventLog = <<>>
    /\ sdk = [specificationRequested |-> FALSE]

IdleApp ==
    /\ IdleFrame
    /\ _avatar = NoAvatar
    /\ _loadingAssets = 0
    /\ _assetMap = EmptyMap
    /\ gl = GlFresh
    /\ bindLog = <<>>
    /\ drawLog = <<>>
    /\ visitLog = <<>>
    /\ crashed = FALSE
    /\ callArgs = [called |-> "none"]
    /\ pendingLoads = <<>>
    /\ lastStored = EmptyMap

(***************************************************************************)
(* Mesh / texture loader and the asset-loaded handler                      *)
(***************************************************************************)
\* Variant of the loader that keeps the bind pose where its inverse belongs.
_loadMeshNoInverse(data, g) ==
    LET pose == data.skinnedBindPose
    IN  With(_computeWorldPose(pose, [i \in 1..pose.jointCount |-> mat4Zero]),
             LAMBDA bindPose :
                 [data |-> MeshData(g.nextVertexArray, data.indexCount, bindPose,
                                    [i \in 1..pose.jointCount |-> Whole(bindPose[i])]),
                  gl |-> [g EXCEPT !.nextVertexArray = @ + 1, !.boundVertexArray = 0]])

\* _loadMesh: new MeshData, glGenVertexArrays, elementCount = indexCount, then
\* the world-space bind pose and, joint by joint, its inverse.
_loadMesh(data, g) ==
    LET pose == data.skinnedBindPose
    IN  With(_computeWorldPose(pose, [i \in 1..pose.jointCount |-> mat4Zero]),
             LAMBDA bindPose :
                 [data |-> MeshData(g.nextVertexArray, data.indexCount, bindPose,
                                    [i \in 1..pose.jointCount |-> glmInverse(bindPose[i])]),
                  gl |-> [g EXCEPT !.nextVertexArray = @ + 1, !.boundVertexArray = 0]])

\* The loops of _loadTexture count in uint32_t; the sizes of the model keep
\* every product and sum far below 2^32.
\* One glTexImage2D / glCompressedTexImage2D call: the level, its size, the
\* byte length passed and the offset into data->textureData.
TexImage(call, glFormat, level, width, height, levelSize, offset) ==
    [call |-> call, glFormat |-> glFormat, level |-> level, width |-> width,
     height |-> height, levelSize |-> levelSize, offset |-> offset]

\* The uncompressed loop, from level on.
RECURSIVE rgbLevelsFrom(_, _, _, _, _, _)
rgbLevelsFrom(data, level, offset, width, height, calls) ==
    IF level >= data.mipCount THEN calls
    ELSE rgbLevelsFrom(data, level + 1, offset + width * height * 3,
                       width \div 2, height \div 2,
                       Append(calls, TexImage("glTexImage2D", "GL_RGB", level, width,
                                              height, width * height * 3,
                                              offset)))

\* Variant of the level size without the one-block minimum.
levelSizeNoMinimum(blockSize, width, height) ==
    blockSize * (width \div 4) * (height \div 4)

\* (width < 4 || height < 4) ? blockSize : blockSize * (width / 4) * (height / 4)
levelSizeOf(blockSize, width, height) ==
    IF width < 4 \/ height < 4 THEN blockSize
    ELSE blockSize * (width \div 4) * (height \div 4)

\* The block-compressed loop, from level on.
RECURSIVE compressedLevelsFrom(_, _, _, _, _, _, _, _)
compressedLevelsFrom(data, glFormat, blockSize, level, offset, width, height, calls) ==
    IF level >= data.mipCount THEN calls
    ELSE LET levelSize == levelSizeOf(blockSize, width, height)
         IN  compressedLevelsFrom(data, glFormat, blockSize, level + 1,
                                  offset + levelSize, width \div 2,
                                  height \div 2,
                                  Append(calls,
                                         TexImage("glCompressedTexImage2D", glFormat,
                                                  level, width, height, levelSize,
                                                  offset)))

\* The switch on data->format; a format without a case uploads nothing.
texImageCalls(data) ==
    CASE data.format = "RGB24" ->
             rgbLevelsFrom(data, 0, 0, data.sizeX, data.sizeY, <<>>)
      [] data.format = "DXT1" ->
             compressedLevelsFrom(data, "GL_COMPRESSED_RGBA_S3TC_DXT1_EXT", 8, 0, 0,
                                  data.sizeX, data.sizeY, <<>>)
      [] data.format = "DXT5" ->
             compressedLevelsFrom(data, "GL_COMPRESSED_RGBA_S3TC_DXT5_EXT", 16, 0, 0,
                                  data.sizeX, data.sizeY, <<>>)
      [] OTHER -> <<>>

\* _loadTexture: new TextureData, glGenTextures, then the mip levels of the
\* texture, one upload call per level.
_loadTexture(data, g) ==
    [data |-> TextureData(g.nextTexture),
     gl |-> [g EXCEPT !.nextTexture = @ + 1,
                      !.textureLevels = (g.nextTexture :> texImageCalls(data)) @@ @]]

\* The switch on the asset type: mesh, texture, or neither (data stays nullptr).
loadAsset(asset, g) ==
    CASE asset.type = "Mesh" -> _loadMesh(asset, g)
      [] asset.type = "Texture" -> _loadTexture(asset, g)
      [] OTHER -> [data |-> NullPtr, gl |-> g]

\* Variant that keeps the first resource stored for an id.
_handleAssetLoadedKeepFirst(message, map, loading, g) ==
    With(loadAsset(message.asset, g), LAMBDA loaded :
        [assetMap |-> MapPutIfAbsent(map, message.assetID, loaded.data),
         loadingAssets |-> loading - 1,
         gl |-> loaded.gl,
         stored |-> loaded.data])

\* Variant of the handler that leaves _loadingAssets as it is.
_handleAssetLoadedUncounted(message, map, loading, g) ==
    With(loadAsset(message.asset, g), LAMBDA loaded :
        [assetMap |-> MapPut(map, message.assetID, loaded.data),
         loadingAssets |-> loading,
         gl |-> loaded.gl,
         stored |-> loaded.data])

\* _handleAssetLoaded: load, _assetMap[assetID] = data, --_loadingAssets.
_handleAssetLoaded(message, map, loading, g) ==
    With(loadAsset(message.asset, g), LAMBDA loaded :
        [assetMap |-> MapPut(map, message.assetID, loaded.data),
         loadingAssets |-> loading - 1,
         gl |-> loaded.gl,
         stored |-> loaded.data])

\* ovrAvatarSkinnedMeshPose: no joints, and a root with one child.
NoJoints == [jointCount |-> 0, jointParents |-> <<>>, jointTransform |-> <<>>]

TwoJoints ==
    [jointCount |-> 2,
     jointParents |-> <<-1, 0>>,
     jointTransform |-> <<translateY1, turnXScaled>>]

\* The same skeleton with the child joint moved away from its bind transform.
TwoJointsMoved ==
    [jointCount |-> 2,
     jointParents |-> <<-1, 0>>,
     jointTransform |-> <<translateY1, translateY1>>]

\* The assets of the model: ids 1 and 2 are meshes, 3 is a texture, 4 is an
\* asset of a type this code does not know.
MeshAssetIDs == {1, 2}

TextureAssetIDs == {3}

UnknownAssetIDs == {4}

AssetIDs == MeshAssetIDs \cup TextureAssetIDs \cup UnknownAssetIDs

\* ovrAvatarTextureAssetData
TextureAssetData(format, sizeX, sizeY, mipCount) ==
    [type |-> "Texture", format |-> format, sizeX |-> sizeX, sizeY |-> sizeY,
     mipCount |-> mipCount]

\* A catalogue of further texture assets: every format (one of them without
\* a case in _loadTexture), every size up to MaxTextureSize in each
\* direction, 0..MaxMips levels; asset ids follow those of AssetIDs.
MaxTextureSize == 9

MaxMips == 3

TextureFormats == <<"RGB24", "DXT1", "DXT5", "Other">>

CatalogueSize == Len(TextureFormats) * MaxTextureSize * MaxTextureSize * (MaxMips + 1)

CatalogueIDs == (Cardinality(AssetIDs) + 1)..(Cardinality(AssetIDs) + CatalogueSize)

CatalogueAsset(id) ==
    LET n == id - Cardinality(AssetIDs) - 1
        mipCount == n % (MaxMips + 1)
        sizeY == ((n \div (MaxMips + 1)) % MaxTextureSize) + 1
        sizeX == ((n \div ((MaxMips + 1) * MaxTextureSize)) % MaxTextureSize) + 1
        f == (n \div ((MaxMips + 1) * MaxTextureSize * MaxTextureSize)) + 1
    IN  TextureAssetData(TextureFormats[f], sizeX, sizeY, mipCount)

\* ovrAvatarAsset_GetType / GetMeshData / GetTextureData of the asset with this id.
AssetOf(id) ==
    CASE id \in MeshAssetIDs ->
             [type |-> "Mesh", indexCount |-> 3 * id, skinnedBindPose |-> TwoJoints]
      [] id \in TextureAssetIDs -> TextureAssetData("DXT1", 8, 4, 2)
      [] id \in CatalogueIDs -> CatalogueAsset(id)
      [] OTHER -> [type |-> "Other"]

AssetLoadedMessage(id) == [assetID |-> id, asset |-> AssetOf(id)]

\* Sequence s without its element at position k.
RemoveAt(s, k) == [j \in 1..(Len(s) - 1) |-> IF j < k THEN s[j] ELSE s[j + 1]]

\* The provider answers one outstanding load request and the application
\* handles the message.
HandleAssetLoaded ==
    /\ ~crashed
    /\ \E k \in 1..Len(pendingLoads) :
        With(_handleAssetLoaded(AssetLoadedMessage(pendingLoads[k]), _assetMap,
                                _loadingAssets, gl),
             LAMBDA r :
                 /\ _assetMap' = r.assetMap
                 /\ _loadingAssets' = r.loadingAssets
                 /\ gl' = r.gl
                 /\ lastStored' = MapPut(lastStored, pendingLoads[k], r.stored)
                 /\ pendingLoads' = RemoveAt(pendingLoads, k))
    /\ UNCHANGED <<_avatar, bindLog, drawLog, visitLog, crashed, callArgs, poseVars, sceneVars,
                   updateVars,
                   frameVars>>

(***************************************************************************)
(* Material / render-state binder.  The functions below run on a machine   *)
(* record m = [assetMap, gl, binds, draws, visits, crashed]; once crashed   *)
(* is set no later statement has an effect.  ub is the outcome of an       *)
(* invalid memory access, should one happen.                               *)
(***************************************************************************)
Machine(map, g) ==
    [assetMap |-> map, gl |-> g, binds |-> <<>>, draws |-> <<>>, visits |-> <<>>,
     crashed |-> FALSE]

\* textureData->textureID through a void* of the asset map.  A MeshData read
\* as a TextureData yields its first member.
TextureIDThrough(data) ==
    CASE data.kind = "texture" -> data.textureID
      [] data.kind = "mesh" -> data.vertexArray
      [] OTHER -> GarbageName

\* glActiveTexture(GL_TEXTURE0 + unit); glBindTexture(GL_TEXTURE_2D, textureID)
BindTexture(m, unit, textureID) ==
    [m EXCEPT !.binds = Append(@, [unit |-> unit, texture |-> textureID])]

\* _setTextureSampler: the single-map path.  The pointer taken from the map
\* is dereferenced without a test.
_setTextureSampler(m, ub, textureUnit, uniformName, assetID) ==
    IF m.crashed THEN m
    ELSE IF assetID = 0
         THEN [BindTexture(m, textureUnit, 0) EXCEPT
                   !.gl.samplers = (uniformName :> textureUnit) @@ @]
         ELSE LET data == MapGet(m.assetMap, assetID)
                  m1 == [m EXCEPT !.assetMap = MapTouch(@, assetID)]
              IN  IF data.kind = "null" /\ ub = "crash"
                  THEN [m1 EXCEPT !.crashed = TRUE]
                  ELSE [BindTexture(m1, textureUnit, TextureIDThrough(data)) EXCEPT
                            !.gl.samplers = (uniformName :> textureUnit) @@ @]

\* _setTextureSamplers: the layer-table path, slots i..count; a null pointer
\* from the map leaves textureID at 0.
RECURSIVE setTextureSamplersFrom(_, _, _, _, _)
setTextureSamplersFrom(m, count, textureUnits, assetIDs, i) ==
    IF i > count THEN m
    ELSE LET assetID == assetIDs[i]
             data == MapGet(m.assetMap, assetID)
             textureID == IF assetID # 0 /\ data.kind # "null"
                          THEN TextureIDThrough(data) ELSE 0
             m1 == IF assetID # 0 THEN [m EXCEPT !.assetMap = MapTouch(@, assetID)]
                   ELSE m
         IN  setTextureSamplersFrom(BindTexture(m1, textureUnits[i], textureID),
                                    count, textureUnits, assetIDs, i + 1)

_setTextureSamplers(m, uniformName, count, textureUnits, assetIDs) ==
    IF m.crashed THEN m
    ELSE [setTextureSamplersFrom(m, count, textureUnits, assetIDs, 1) EXCEPT
              !.gl.samplers = (uniformName :> textureUnits) @@ @]

\* Variant of the memset that leaves the struct as the stack had it.
memsetSkipped(layerUniforms) == layerUniforms

\* memset(&layerUniforms, 0, sizeof(layerUniforms))
memsetLayerUniforms(layerUniforms) == ZeroLayerUniforms

\* Variant of the pass that gives every layer the first layer unit.
fillLayerOneUnit(u, layerState, i, textureSlot) ==
    [u EXCEPT !.layerSamplerModes[i] = layerState.sampleMode,
              !.layerBlendModes[i] = layerState.blendMode,
              !.layerMaskTypes[i] = layerState.maskType,
              !.layerColors[i] = layerState.layerColor,
              !.layerSurfaces[i] = 5,
              !.layerSurfaceIDs[i] = layerState.sampleTexture,
              !.layerSurfaceScaleOffsets[i] = layerState.sampleScaleOffset,
              !.layerSampleParameters[i] = layerState.sampleParameters,
              !.layerMaskParameters[i] = layerState.maskParameters,
              !.layerMaskAxes[i] = layerState.maskAxis]

\* One pass of the loop over state->layers: slot i takes the layer's values
\* and the next texture unit.
fillLayer(u, layerState, i, textureSlot) ==
    [u EXCEPT !.layerSamplerModes[i] = layerState.sampleMode,
              !.layerBlendModes[i] = layerState.blendMode,
              !.layerMaskTypes[i] = layerState.maskType,
              !.layerColors[i] = layerState.layerColor,
              !.layerSurfaces[i] = textureSlot,
              !.layerSurfaceIDs[i] = layerState.sampleTexture,
              !.layerSurfaceScaleOffsets[i] = layerState.sampleScaleOffset,
              !.layerSampleParameters[i] = layerState.sampleParameters,
              !.layerMaskParameters[i] = layerState.maskParameters,
              !.layerMaskAxes[i] = layerState.maskAxis]

RECURSIVE fillLayersFrom(_, _, _, _)
fillLayersFrom(u, state, i, textureSlot) ==
    IF i > state.layerCount THEN u
    ELSE fillLayersFrom(fillLayer(u, state.layers[i], i, textureSlot),
                        state, i + 1, textureSlot + 1)

\* _setMaterialState: projector flag, the four single maps at units 1..4,
\* then the layer table (struct on the stack, memset, fill, upload of all
\* OVR_AVATAR_MAX_MATERIAL_LAYER_COUNT slots of every array).
_setMaterialState(m, ub, state, projectorInv) ==
    LET m0 == IF m.crashed THEN m
              ELSE IF projectorInv.present
              THEN [m EXCEPT !.gl.useProjector = 1,
                             !.gl.projectorInv = projectorInv.value]
              ELSE [m EXCEPT !.gl.useProjector = 0]
        m1 == _setTextureSampler(m0, ub, 1, "alphaMask", state.alphaMaskTextureID)
        m2 == _setTextureSampler(m1, ub, 2, "normalMap", state.normalMapTextureID)
        m3 == _setTextureSampler(m2, ub, 3, "parallaxMap", state.parallaxMapTextureID)
    IN  With(_setTextureSampler(m3, ub, 4, "roughnessMap", state.roughnessMapTextureID),
             LAMBDA m4 :
        With(fillLayersFrom(memsetLayerUniforms(StackResidue), state, 1, 5),
             LAMBDA layerUniforms :
            _setTextureSamplers(IF m4.crashed THEN m4
                                ELSE [m4 EXCEPT !.gl.layerCount = state.layerCount,
                                                !.gl.layerUniforms = layerUniforms],
                                "layerSurfaces", OVR_AVATAR_MAX_MATERIAL_LAYER_COUNT,
                                layerUniforms.layerSurfaces,
                                layerUniforms.layerSurfaceIDs)))

\* _setPBSState: albedo at unit 0, surface at unit 1.
_setPBSState(m, ub, albedoTextureID, surfaceTextureID) ==
    _setTextureSampler(_setTextureSampler(m, ub, 0, "albedo", albedoTextureID),
                       ub, 1, "surface", surfaceTextureID)

\* ovrAvatarMaterialState (the members this model follows) and its layers.
LayerState(mode, color, texture) ==
    [sampleMode |-> mode,
     blendMode |-> mode + 1,
     maskType |-> mode + 2,
     layerColor |-> color,
     sampleTexture |-> texture,
     sampleScaleOffset |-> <<1, 1, 0, mode>>,
     sampleParameters |-> <<mode, 0, 0, 1>>,
     maskParameters |-> <<0, mode, 1, 0>>,
     maskAxis |-> <<0, 1, 0, mode>>]

MaterialState(alpha, normal, parallax, roughness, layers) ==
    [alphaMaskTextureID |-> alpha,
     normalMapTextureID |-> normal,
     parallaxMapTextureID |-> parallax,
     roughnessMapTextureID |-> roughness,
     layerCount |-> Len(layers),
     layers |-> layers]

NoProjector == [present |-> FALSE]

\* glm::mat4* projectorInv that is not null
ProjectorInv(value) == [present |-> TRUE, value |-> value]

(***************************************************************************)
(* SpecPose                                                                *)
(***************************************************************************)
Poses ==
    UNION { { [jointCount |-> n, jointTransform |-> t, jointParents |-> p] :
                t \in [1..n -> JointTransforms], p \in [1..n -> -1..(n - 1)] } :
            n \in 0..MaxJoints }

\* State of the parts a specification does not drive.
NoReflection == [computed |-> FALSE]

\* RiftApp::draw: the reflection plane is the plane z = 0.
IdleReflection ==
    /\ reflectionPlane = <<0, 0, -1, 0>>
    /\ eyeWorld = <<0, 0, 0>>
    /\ reflection = NoReflection

IdlePose ==
    /\ localPose = [jointCount |-> 0, jointTransform |-> <<>>, jointParents |-> <<>>]
    /\ worldPose = <<>>
    /\ posePc = "done"
    /\ ovrTransform = IdentityTransform
    /\ target = NoTarget
    /\ IdleReflection

IdleUpdate ==
    /\ packetPlaybackTime = 0
    /\ sdkCalls = <<>>
    /\ updateArgs = [called |-> FALSE]

InitPose ==
    /\ localPose \in Poses
    /\ worldPose \in [1..localPose.jointCount -> GarbageMatrices]
    /\ posePc = "ready"
    /\ ovrTransform = IdentityTransform
    /\ target = NoTarget
    /\ IdleReflection
    /\ IdleUpdate
    /\ IdleScene
    /\ IdleApp

ComputeWorldPoseCall ==
    /\ posePc = "ready"
    /\ worldPose' = _computeWorldPose(localPose, worldPose)
    /\ posePc' = "done"
    /\ UNCHANGED <<localPose, ovrTransform, target, reflectionPlane, eyeWorld, reflection,
                   updateVars, appVars, frameVars, sceneVars>>

NextPose == ComputeWorldPoseCall

SpecPose == InitPose /\ [][NextPose]_vars

(***************************************************************************)
(* SpecRoundTrip: a transform is turned into a matrix and the matrix back  *)
(* into a transform.                                                       *)
(***************************************************************************)
MaxScale == 2

Positions == {<<0, 0, 0>>, <<1, -2, 3>>}

\* The identity and the half-turns about the three axes, each as q and -q.
Orientations ==
    {<<1, 0, 0, 0>>, <<0, 1, 0, 0>>, <<0, 0, 1, 0>>, <<0, 0, 0, 1>>,
     <<-1, 0, 0, 0>>, <<0, -1, 0, 0>>, <<0, 0, -1, 0>>, <<0, 0, 0, -1>>}

\* Scales with nonzero components of either sign.
ScaleValues == ((0 - MaxScale)..MaxScale) \ {0}

Scales == {<<x, y, z>> : x \in ScaleValues, y \in ScaleValues, z \in ScaleValues}

InitRoundTrip ==
    /\ localPose = [jointCount |-> 0, jointTransform |-> <<>>, jointParents |-> <<>>]
    /\ worldPose = <<>>
    /\ posePc = "done"
    /\ ovrTransform \in {Transform(p, q, sc) :
                          p \in Positions, q \in Orientations, sc \in Scales}
    /\ target = NoTarget
    /\ IdleReflection
    /\ IdleUpdate
    /\ IdleScene
    /\ IdleApp

\* glm::mat4 m; _glmFromOvrAvatarTransform(ovrTransform, &m);
\* _ovrAvatarTransformFromGlm(m, &target);
RoundTripCall ==
    /\ target = NoTarget
    /\ target' = _ovrAvatarTransformFromGlm(_glmFromOvrAvatarTransform(ovrTransform))
    /\ UNCHANGED <<localPose, worldPose, posePc, ovrTransform, reflectionPlane, eyeWorld,
                   reflection, updateVars, appVars, frameVars, sceneVars>>

NextRoundTrip == RoundTripCall

SpecRoundTrip == InitRoundTrip /\ [][NextRoundTrip]_vars

(***************************************************************************)
(* SpecReflection: the reflection matrix of a plane, applied to a point    *)
(* as RiftApp::draw applies it (reflection * vec4(eyeWorld, 1)).           *)
(***************************************************************************)
MaxDistance == 2

MaxCoordinate == 1

\* Unit normals with integer components: the six axis directions.
UnitNormals ==
    {<<1, 0, 0>>, <<-1, 0, 0>>, <<0, 1, 0>>, <<0, -1, 0>>, <<0, 0, 1>>, <<0, 0, -1>>}

Planes == {<<n[1], n[2], n[3], d>> : n \in UnitNormals,
                                     d \in (0 - MaxDistance)..MaxDistance}

Coordinates == (0 - MaxCoordinate)..MaxCoordinate

Points == {<<x, y, z>> : x \in Coordinates, y \in Coordinates, z \in Coordinates}

InitReflection ==
    /\ localPose = [jointCount |-> 0, jointTransform |-> <<>>, jointParents |-> <<>>]
    /\ worldPose = <<>>
    /\ posePc = "done"
    /\ ovrTransform = IdentityTransform
    /\ target = NoTarget
    /\ reflectionPlane \in Planes
    /\ eyeWorld \in Points
    /\ reflection = NoReflection
    /\ IdleUpdate
    /\ IdleScene
    /\ IdleApp

\* glm::mat4 reflection = _computeReflectionMatrix(reflectionPlane);
\* reflection * glm::vec4(eyeWorld, 1.0f)
ReflectionCall ==
    /\ reflection = NoReflection
    /\ reflection' =
           With(_computeReflectionMatrix(reflectionPlane), LAMBDA matrix :
               [computed |-> TRUE,
                matrix |-> matrix,
                image |-> mat4MulVec4(matrix, <<eyeWorld[1], eyeWorld[2], eyeWorld[3], 1>>)])
    /\ UNCHANGED <<localPose, worldPose, posePc, ovrTransform, target, reflectionPlane,
                   eyeWorld, updateVars, appVars, frameVars, sceneVars>>

NextReflection == ReflectionCall

SpecReflection == InitReflection /\ [][NextReflection]_vars

\* The mirror image of point p in the plane: p - 2 (n.p + d) n, with
\* homogeneous coordinate 1.
MirrorImage(plane, p) ==
    LET k == 2 * (plane[1] * p[1] + plane[2] * p[2] + plane[3] * p[3] + plane[4])
    IN  <<p[1] - k * plane[1], p[2] - k * plane[2], p[3] - k * plane[3], 1>>

\* C23: for every plane (unit normal n, distance d) and every point p, the
\* matrix of _computeReflectionMatrix times the column vector (p, 1) is the
\* mirror image p - 2(n.p + d)n with homogeneous coordinate 1, also when d
\* is not zero.
C23_ReflectionIsMirrorImage ==
    reflection.computed => reflection.image = MirrorImage(reflectionPlane, eyeWorld)

\* Two unit quaternions of one rotation: q and -q.
SameRotation(p, q) == p = q \/ p = <<0 - q[1], 0 - q[2], 0 - q[3], 0 - q[4]>>

AllPositive(v) == v[1] > 0 /\ v[2] > 0 /\ v[3] > 0

ParentBeforeChild(pose) ==
    \A i \in 1..pose.jointCount :
        pose.jointParents[i] >= 0 => pose.jointParents[i] < i - 1

\* C24: a call of _computeWorldPose on a pose that breaks the contract (some
\* non-root joint's parent index is not strictly smaller than its own) is
\* stopped by an assertion: it does not return with world[i] computed from
\* a parent entry the pass has not written yet.  So every call that has
\* returned was given a pose with parents before children.
C24_OrderViolationDetected ==
    posePc = "done" => ParentBeforeChild(localPose)

ScenarioPose ==
    [jointCount |-> 3,
     jointTransform |-> <<translateY1, translateY1, translateY1>>,
     jointParents |-> <<-1, 0, 1>>]

\* C1: for a joint array with every parent before its child, after
\* _computeWorldPose world[i] = local[i] for a joint with a negative parent
\* index and world[i] = world[parent[i]] * local[i] for every other joint;
\* the 3-joint chain of translate(0,1,0) ends at (0,1,0), (0,2,0), (0,3,0).
C1_WorldPoseComposition ==
    (posePc = "done" /\ ParentBeforeChild(localPose)) =>
        /\ \A i \in 1..localPose.jointCount :
              LET local == _glmFromOvrAvatarTransform(localPose.jointTransform[i])
                  parentIndex == localPose.jointParents[i]
              IN  worldPose[i] = IF parentIndex < 0 THEN local
                                 ELSE mat4Mul(worldPose[parentIndex + 1], local)
        /\ localPose = ScenarioPose =>
              /\ mat4Position(worldPose[1]) = <<0, 1, 0>>
              /\ mat4Position(worldPose[2]) = <<0, 2, 0>>
              /\ mat4Position(worldPose[3]) = <<0, 3, 0>>

\* A three-joint chain mixing both transforms has been evaluated.
C1_Witness ==
    /\ posePc = "done"
    /\ localPose.jointCount = 3
    /\ localPose.jointParents = <<-1, 0, 1>>
    /\ localPose.jointTransform = <<translateY1, turnXScaled, translateY1>>
    /\ mat4Position(worldPose[3]) = <<1, -1, 2>>

(***************************************************************************)
(* _updateAvatar                                                           *)
(***************************************************************************)
NoPacket == [present |-> FALSE]

Packet(duration) == [present |-> TRUE, duration |-> duration]

NoMic == [present |-> FALSE]

\* A microphone whose ovr_Microphone_ReadData returns sampleCount samples.
Mic(sampleCount) == [present |-> TRUE, sampleCount |-> sampleCount]

SdkCall(name, arg) == [call |-> name, arg |-> arg]

\* Variant that carries the remainder into the next loop.
updatePlaybackCarry(deltaSeconds, packet, cursor) ==
    LET packetDuration == packet.duration
        advanced == cursor + deltaSeconds
        wrapped == advanced > packetDuration
        time == IF wrapped THEN advanced - packetDuration ELSE advanced
    IN  [calls |-> (IF wrapped THEN <<SdkCall("Finalize", 0)>> ELSE <<>>)
                   \o <<SdkCall("UpdatePoseFromPacket", time)>>,
         cursor |-> time]

\* Variant that finalizes past the duration and lets the cursor run on.
updatePlaybackNoReset(deltaSeconds, packet, cursor) ==
    LET packetDuration == packet.duration
        advanced == cursor + deltaSeconds
        wrapped == advanced > packetDuration
    IN  [calls |-> (IF wrapped THEN <<SdkCall("Finalize", 0)>> ELSE <<>>)
                   \o <<SdkCall("UpdatePoseFromPacket", advanced)>>,
         cursor |-> advanced]

\* The playback branch: advance the cursor, wrap to 0 past the duration,
\* sample the packet at the cursor.
updatePlayback(deltaSeconds, packet, cursor) ==
    LET packetDuration == packet.duration
        advanced == cursor + deltaSeconds
        wrapped == advanced > packetDuration
        time == IF wrapped THEN 0 ELSE advanced
    IN  [calls |-> (IF wrapped THEN <<SdkCall("Finalize", 0)>> ELSE <<>>)
                   \o <<SdkCall("UpdatePoseFromPacket", time)>>,
         cursor |-> time]

\* The live branch: optional voice visualization, then body and hands.
updateLive(mic, cursor) ==
    [calls |-> (IF mic.present /\ mic.sampleCount > 0
                THEN <<SdkCall("UpdateVoiceVisualization", mic.sampleCount)>>
                ELSE <<>>)
               \o <<SdkCall("UpdateBody", 0), SdkCall("UpdateHands", 0)>>,
     cursor |-> cursor]

\* Variant without the else: the live updates also run during playback.
updateBranchNoElse(deltaSeconds, mic, packet, cursor) ==
    IF packet.present
    THEN LET r == updatePlayback(deltaSeconds, packet, cursor)
         IN  [calls |-> r.calls \o updateLive(mic, r.cursor).calls, cursor |-> r.cursor]
    ELSE updateLive(mic, cursor)

updateBranch(deltaSeconds, mic, packet, cursor) ==
    IF packet.present THEN updatePlayback(deltaSeconds, packet, cursor)
    ELSE updateLive(mic, cursor)

\* Variant that returns right after a wrapped playback sample.
_updateAvatarReturnOnWrap(deltaSeconds, mic, packet, cursor) ==
    LET branch == updateBranch(deltaSeconds, mic, packet, cursor)
    IN  IF packet.present /\ cursor + deltaSeconds > packet.duration
        THEN branch
        ELSE [calls |-> Append(branch.calls, SdkCall("Finalize", deltaSeconds)),
              cursor |-> branch.cursor]

\* The whole call: one branch, then ovrAvatarPose_Finalize(avatar, deltaSeconds).
_updateAvatar(deltaSeconds, mic, packet, cursor) ==
    LET branch == updateBranch(deltaSeconds, mic, packet, cursor)
    IN  [calls |-> Append(branch.calls, SdkCall("Finalize", deltaSeconds)),
         cursor |-> branch.cursor]

(***************************************************************************)
(* SpecUpdate: a caller that owns the cursor and calls _updateAvatar       *)
(* every frame, live or with a recorded packet.                            *)
(***************************************************************************)
Packets == {NoPacket} \cup {Packet(d) : d \in 0..MaxDuration}

Mics == {NoMic, Mic(0), Mic(2)}

InitUpdate ==
    /\ IdlePose
    /\ IdleUpdate
    /\ IdleScene
    /\ IdleApp

UpdateAvatarCall ==
    \E deltaSeconds \in 0..MaxDelta, mic \in Mics, packet \in Packets :
        LET r == _updateAvatar(deltaSeconds, mic, packet, packetPlaybackTime)
        IN  /\ packetPlaybackTime' = r.cursor
            /\ sdkCalls' = r.calls
            /\ updateArgs' = [called |-> TRUE, deltaSeconds |-> deltaSeconds,
                              mic |-> mic, packet |-> packet,
                              cursorBefore |-> packetPlaybackTime]
            /\ UNCHANGED <<poseVars, sceneVars, appVars, frameVars>>

NextUpdate == UpdateAvatarCall

SpecUpdate == InitUpdate /\ [][NextUpdate]_vars

CallNames == {sdkCalls[j].call : j \in 1..Len(sdkCalls)}

CallCount(name) == Cardinality({j \in 1..Len(sdkCalls) : sdkCalls[j].call = name})

PoseUpdateCalls ==
    {"UpdatePoseFromPacket", "UpdateBody", "UpdateHands", "UpdateVoiceVisualization"}

\* C7: in a playback update the cursor is advanced by deltaSeconds; if the
\* advanced cursor is strictly greater than the packet duration the pose is
\* reset (Finalize 0) and the cursor becomes exactly 0, otherwise it keeps
\* the advanced value; the pose is then sampled at the resulting cursor.
\* Duration 2.0 s (4 ticks), deltas 1.5 s then 1.0 s: the second update
\* leaves the cursor at 0, not at 0.5 s.
C7_PlaybackCursor ==
    (updateArgs.called /\ updateArgs.packet.present) =>
        LET advanced == updateArgs.cursorBefore + updateArgs.deltaSeconds
            duration == updateArgs.packet.duration
        IN  /\ IF advanced > duration
               THEN /\ packetPlaybackTime = 0
                    /\ sdkCalls[1] = SdkCall("Finalize", 0)
                    /\ sdkCalls[2] = SdkCall("UpdatePoseFromPacket", 0)
               ELSE /\ packetPlaybackTime = advanced
                    /\ sdkCalls[1] = SdkCall("UpdatePoseFromPacket", advanced)
            /\ (duration = 4 /\ updateArgs.cursorBefore = 3 /\ updateArgs.deltaSeconds = 2)
                  => packetPlaybackTime = 0

\* The second update of the scenario: cursor 1.5 s, delta 1.0 s, duration 2.0 s.
C7_Witness ==
    /\ updateArgs.called
    /\ updateArgs.packet = Packet(4)
    /\ updateArgs.cursorBefore = 3
    /\ updateArgs.deltaSeconds = 2
    /\ sdkCalls[1] = SdkCall("Finalize", 0)

\* C8: each _updateAvatar call runs exactly one branch, chosen only by the
\* presence of a packet: with a packet UpdatePoseFromPacket and none of
\* UpdateBody, UpdateHands, voice visualization; without one UpdateBody then
\* UpdateHands, no UpdatePoseFromPacket, and the cursor is left unchanged.
C8_OneBranch ==
    updateArgs.called =>
        IF updateArgs.packet.present
        THEN /\ CallCount("UpdatePoseFromPacket") = 1
             /\ CallNames \cap {"UpdateBody", "UpdateHands", "UpdateVoiceVisualization"} = {}
        ELSE /\ CallCount("UpdateBody") = 1
             /\ CallCount("UpdateHands") = 1
             /\ \E j \in 1..(Len(sdkCalls) - 1) :
                   /\ sdkCalls[j].call = "UpdateBody"
                   /\ sdkCalls[j + 1].call = "UpdateHands"
             /\ "UpdatePoseFromPacket" \notin CallNames
             /\ packetPlaybackTime = updateArgs.cursorBefore

\* A live update, with voice samples, made while the cursor stands mid-packet.
C8_Witness ==
    /\ updateArgs.called
    /\ ~updateArgs.packet.present
    /\ updateArgs.mic = Mic(2)
    /\ updateArgs.cursorBefore = 3
    /\ packetPlaybackTime = 3
    /\ Len(sdkCalls) = 4

\* C9: every _updateAvatar call ends with exactly one
\* Finalize(avatar, deltaSeconds) issued after all pose updates of the call,
\* in both branches and whether or not the cursor wrapped.
C9_FinalizeLast ==
    updateArgs.called =>
        /\ Len(sdkCalls) >= 1
        /\ sdkCalls[Len(sdkCalls)] = SdkCall("Finalize", updateArgs.deltaSeconds)
        /\ \A j \in 1..(Len(sdkCalls) - 1) :
              sdkCalls[j].call = "Finalize" =>
                  \E k \in (j + 1)..(Len(sdkCalls) - 1) :
                      sdkCalls[k].call \in PoseUpdateCalls

\* A playback update that wrapped: Finalize(0), the sample, Finalize(delta).
C9_Witness ==
    /\ updateArgs.called
    /\ updateArgs.packet.present
    /\ updateArgs.deltaSeconds = 3
    /\ Len(sdkCalls) = 3
    /\ sdkCalls[1].call = "Finalize"
    /\ sdkCalls[3] = SdkCall("Finalize", 3)

\* The call reset the cursor: it began with ovrAvatarPose_Finalize(avatar, 0).
CursorReset == sdkCalls[1].call = "Finalize"

\* C28: starting from cursor 0, after any sequence of updates with
\* non-negative deltas and packets of non-negative duration, the cursor at
\* which the pose is sampled lies in 0..duration, and an update that does not
\* reset the cursor never decreases it.
C28_CursorWithinDuration ==
    /\ packetPlaybackTime >= 0
    /\ updateArgs.called =>
          /\ updateArgs.packet.present =>
                \A j \in 1..Len(sdkCalls) :
                    sdkCalls[j].call = "UpdatePoseFromPacket" =>
                        /\ sdkCalls[j].arg = packetPlaybackTime
                        /\ 0 <= sdkCalls[j].arg
                        /\ sdkCalls[j].arg <= updateArgs.packet.duration
          /\ (packetPlaybackTime >= updateArgs.cursorBefore
               \/ (updateArgs.packet.present /\ CursorReset /\ packetPlaybackTime = 0))

\* An update without reset that brought the cursor exactly to the duration.
C28_Witness ==
    /\ updateArgs.called
    /\ updateArgs.packet = Packet(MaxDuration)
    /\ updateArgs.cursorBefore = MaxDuration - 1
    /\ updateArgs.deltaSeconds = 1
    /\ packetPlaybackTime = MaxDuration
    /\ sdkCalls[1] = SdkCall("UpdatePoseFromPacket", MaxDuration)

(***************************************************************************)
(* SpecBinder: the asset-loaded handler and the material binder, called    *)
(* with materials over texture asset 3 (requested up to MaxRefs times) and *)
(* asset 4, which is never loaded.                                         *)
(***************************************************************************)
\* All sequences over S of length at most n.
SeqsUpTo(S, n) == UNION {[1..k -> S] : k \in 0..n}

LayerA == LayerState(1, <<1, 1, 1, 1>>, 3)

LayerB == LayerState(2, <<0, 1, 0, 1>>, 4)

\* Alpha mask, normal, parallax and roughness map ids of the materials bound.
SingleMapChoices == {<<0, 0, 0, 0>>, <<3, 0, 0, 0>>, <<0, 0, 0, 3>>, <<3, 3, 3, 3>>}

BinderMaterials ==
    {MaterialState(maps[1], maps[2], maps[3], maps[4], layers) :
        maps \in SingleMapChoices,
        layers \in SeqsUpTo({LayerA, LayerB}, OVR_AVATAR_MAX_MATERIAL_LAYER_COUNT)}

InitBinder ==
    /\ IdlePose
    /\ IdleUpdate
    /\ IdleScene
    /\ IdleFrame
    /\ _avatar = [present |-> TRUE, components |-> <<>>]
    /\ pendingLoads \in SeqsUpTo(TextureAssetIDs, MaxRefs)
    /\ _loadingAssets = Len(pendingLoads)
    /\ _assetMap = EmptyMap
    /\ gl = GlFresh
    /\ bindLog = <<>>
    /\ drawLog = <<>>
    /\ visitLog = <<>>
    /\ crashed = FALSE
    /\ callArgs = [called |-> "none"]
    /\ lastStored = EmptyMap

\* The machine record after a call becomes the state.
Commit(r, args) ==
    /\ _assetMap' = r.assetMap
    /\ gl' = r.gl
    /\ bindLog' = r.binds
    /\ drawLog' = r.draws
    /\ visitLog' = r.visits
    /\ crashed' = r.crashed
    /\ callArgs' = args
    /\ UNCHANGED <<_avatar, _loadingAssets, pendingLoads, lastStored, poseVars, sceneVars,
                   updateVars, frameVars>>

SetMaterialStateCall ==
    /\ ~crashed
    /\ \E state \in BinderMaterials, ub \in UBOutcomes :
        Commit(_setMaterialState(Machine(_assetMap, gl), ub, state, NoProjector),
               [called |-> "_setMaterialState", state |-> state,
                assetMapBefore |-> _assetMap])

SetPBSStateCall ==
    /\ ~crashed
    /\ \E albedo \in {0, 3}, surface \in {0, 3}, ub \in UBOutcomes :
        Commit(_setPBSState(Machine(_assetMap, gl), ub, albedo, surface),
               [called |-> "_setPBSState", albedo |-> albedo, surface |-> surface,
                assetMapBefore |-> _assetMap])

NextBinder ==
    \/ HandleAssetLoaded
    \/ SetMaterialStateCall
    \/ SetPBSStateCall

SpecBinder == InitBinder /\ [][NextBinder]_vars

(***************************************************************************)
(* SpecTexture: one texture asset of the catalogue is loaded.              *)
(***************************************************************************)
InitTexture ==
    /\ IdlePose
    /\ IdleUpdate
    /\ IdleScene
    /\ IdleFrame
    /\ _avatar = [present |-> TRUE, components |-> <<>>]
    /\ pendingLoads \in {<<id>> : id \in CatalogueIDs}
    /\ _loadingAssets = Len(pendingLoads)
    /\ _assetMap = EmptyMap
    /\ gl = GlFresh
    /\ bindLog = <<>>
    /\ drawLog = <<>>
    /\ visitLog = <<>>
    /\ crashed = FALSE
    /\ callArgs = [called |-> "none"]
    /\ lastStored = EmptyMap

NextTexture == HandleAssetLoaded

SpecTexture == InitTexture /\ [][NextTexture]_vars

\* n halved L times by integer division.
RECURSIVE Halved(_, _)
Halved(n, L) == IF L = 0 THEN n ELSE Halved(n, L - 1) \div 2

\* The byte length of level L of a block-compressed texture.
BlockLevelBytes(data, blockSize, L) ==
    LET w == Halved(data.sizeX, L)
        h == Halved(data.sizeY, L)
    IN  IF w < 4 \/ h < 4 THEN blockSize ELSE blockSize * (w \div 4) * (h \div 4)

\* The sum of the byte lengths of levels 0..L-1.
RECURSIVE BlockBytesBefore(_, _, _)
BlockBytesBefore(data, blockSize, L) ==
    IF L = 0 THEN 0
    ELSE BlockBytesBefore(data, blockSize, L - 1) + BlockLevelBytes(data, blockSize, L - 1)

\* C19: for a DXT1 (block size 8) or DXT5 (block size 16) texture
\* _loadTexture uploads the levels 0..mipCount-1 in order, level L with
\* width and height sizeX, sizeY halved L times by integer division, with
\* byte length blockSize * (w/4) * (h/4), or blockSize when w < 4 or h < 4,
\* read at the offset that is the sum of the byte lengths of the levels
\* before it.
C19_CompressedMipLevels ==
    \A id \in DOMAIN lastStored :
        LET data == AssetOf(id)
            blockSize == IF data.format = "DXT1" THEN 8 ELSE 16
            calls == gl.textureLevels[lastStored[id].textureID]
        IN  (data.type = "Texture" /\ data.format \in {"DXT1", "DXT5"}) =>
                /\ Len(calls) = data.mipCount
                /\ \A L \in 0..(data.mipCount - 1) :
                      /\ calls[L + 1].call = "glCompressedTexImage2D"
                      /\ calls[L + 1].level = L
                      /\ calls[L + 1].width = Halved(data.sizeX, L)
                      /\ calls[L + 1].height = Halved(data.sizeY, L)
                      /\ calls[L + 1].levelSize = BlockLevelBytes(data, blockSize, L)
                      /\ calls[L + 1].offset = BlockBytesBefore(data, blockSize, L)

\* A DXT5 texture of 9 x 8 with three levels has been loaded: 64, 16 and 16
\* bytes, level 2 (2 x 2) read at offset 80.
C19_Witness ==
    \E id \in DOMAIN lastStored :
        /\ AssetOf(id) = TextureAssetData("DXT5", 9, 8, 3)
        /\ Len(gl.textureLevels[lastStored[id].textureID]) = 3
        /\ gl.textureLevels[lastStored[id].textureID][3].width = 2
        /\ gl.textureLevels[lastStored[id].textureID][3].offset = 80

\* The asset ids a material hands to the binder, with the texture unit of each.
SingleMapBindings(state) ==
    { [unit |-> 1, id |-> state.alphaMaskTextureID],
      [unit |-> 2, id |-> state.normalMapTextureID],
      [unit |-> 3, id |-> state.parallaxMapTextureID],
      [unit |-> 4, id |-> state.roughnessMapTextureID] }

LayerBindings(state) ==
    { [unit |-> 4 + i, id |-> state.layers[i].sampleTexture] : i \in 1..state.layerCount }

HasResource(map, id) == MapGet(map, id).kind # "null"

\* The texture bound at a unit by the latest call (the last bind of that unit).
BoundAt(unit) ==
    LET at == {j \in 1..Len(bindLog) : bindLog[j].unit = unit}
    IN  IF at = {} THEN [bound |-> FALSE]
        ELSE [bound |-> TRUE,
              texture |-> bindLog[CHOOSE j \in at : \A k \in at : k <= j].texture]

\* The sampler uniforms of the four single maps, in the order of the calls.
SingleMapUniforms == <<"alphaMask", "normalMap", "parallaxMap", "roughnessMap">>

\* The texture units the latest _setMaterialState gave to the single maps
\* (as a sequence) and to the active layers 0..layerCount-1.
SingleMapUnits == [j \in 1..4 |-> gl.samplers[SingleMapUniforms[j]]]

LayerUnits == [i \in 1..callArgs.state.layerCount |-> gl.samplers.layerSurfaces[i]]

\* The texture the cache held for an asset id when the call began.
TextureBefore(id) ==
    IF id = 0 THEN 0 ELSE MapGet(callArgs.assetMapBefore, id).textureID

\* C18: _setMaterialState puts the alpha mask, normal, parallax and
\* roughness maps at texture units 1, 2, 3, 4 and layer i (0 <= i <
\* layerCount) at unit 5 + i: with layerCount <= M every unit used is in
\* 1..5+M-1, no two maps or active layers share a unit, and each of these
\* units has the texture of its map or layer bound.
C18_TextureUnits ==
    (callArgs.called = "_setMaterialState" /\ ~crashed) =>
        LET state == callArgs.state
            ids == <<state.alphaMaskTextureID, state.normalMapTextureID,
                     state.parallaxMapTextureID, state.roughnessMapTextureID>>
            units == {SingleMapUnits[j] : j \in 1..4}
                         \cup {LayerUnits[i] : i \in 1..state.layerCount}
        IN  /\ SingleMapUnits = <<1, 2, 3, 4>>
            /\ \A i \in 1..state.layerCount : LayerUnits[i] = 5 + (i - 1)
            /\ units \subseteq 1..(5 + OVR_AVATAR_MAX_MATERIAL_LAYER_COUNT - 1)
            /\ Cardinality(units) = 4 + state.layerCount
            /\ \A j \in 1..4 :
                  (ids[j] = 0 \/ HasResource(callArgs.assetMapBefore, ids[j])) =>
                      BoundAt(SingleMapUnits[j])
                          = [bound |-> TRUE, texture |-> TextureBefore(ids[j])]
            /\ \A i \in 1..state.layerCount :
                  HasResource(callArgs.assetMapBefore, state.layers[i].sampleTexture) =>
                      BoundAt(LayerUnits[i])
                          = [bound |-> TRUE,
                             texture |-> TextureBefore(state.layers[i].sampleTexture)]

\* A material with all four maps and the maximum number of layers has been
\* bound with its texture loaded.
C18_Witness ==
    /\ callArgs.called = "_setMaterialState"
    /\ ~crashed
    /\ callArgs.state.alphaMaskTextureID = 3
    /\ callArgs.state.roughnessMapTextureID = 3
    /\ callArgs.state.layerCount = OVR_AVATAR_MAX_MATERIAL_LAYER_COUNT
    /\ HasResource(callArgs.assetMapBefore, 3)
    /\ BoundAt(5 + OVR_AVATAR_MAX_MATERIAL_LAYER_COUNT - 1).bound

\* C2: a lookup in the asset cache returns, for every asset id, what the
\* most recently handled asset-loaded message for that id stored (a second
\* message for the same id replaces the first), and no resource for an id
\* for which no asset-loaded message has been handled.
C2_LastWriteWins ==
    \A id \in AssetIDs :
        MapGet(_assetMap, id) =
            IF id \in DOMAIN lastStored THEN lastStored[id] ELSE NullPtr

\* Asset 3 was loaded twice and a binder call after the second load bound
\* the second texture; asset 4, never loaded, was looked up by the same call.
C2_Witness ==
    /\ 3 \in DOMAIN lastStored
    /\ lastStored[3] = TextureData(2)
    /\ callArgs.called = "_setMaterialState"
    /\ BoundAt(1) = [bound |-> TRUE, texture |-> 2]
    /\ 4 \in DOMAIN _assetMap
    /\ 4 \notin DOMAIN lastStored

\* C3: for every texture asset id handed to the binder (single-map path and
\* layer-table path) that is zero or has no loaded resource in the asset
\* cache, the binder binds texture 0 at that unit, and the binder never fails.
C3_BinderNeverFails ==
    callArgs.called = "_setMaterialState" =>
        /\ ~crashed
        /\ \A b \in SingleMapBindings(callArgs.state) \cup LayerBindings(callArgs.state) :
              (b.id = 0 \/ ~HasResource(callArgs.assetMapBefore, b.id)) =>
                  BoundAt(b.unit) = [bound |-> TRUE, texture |-> 0]

\* C6: for a material with layer count k <= M the layer table uploaded by
\* _setMaterialState has slots 0..k-1 populated from layers[0..k-1] in order
\* (texture units 5, 6, ...) and every field of every slot k..M-1 zero,
\* whatever was uploaded or left on the stack before.
C6_LayerTable ==
    (callArgs.called = "_setMaterialState" /\ ~crashed) =>
        LET state == callArgs.state
            u == gl.layerUniforms
        IN  /\ gl.layerCount = state.layerCount
            /\ \A i \in 1..state.layerCount :
                  /\ u.layerSamplerModes[i] = state.layers[i].sampleMode
                  /\ u.layerBlendModes[i] = state.layers[i].blendMode
                  /\ u.layerMaskTypes[i] = state.layers[i].maskType
                  /\ u.layerColors[i] = state.layers[i].layerColor
                  /\ u.layerSurfaces[i] = 4 + i
                  /\ u.layerSurfaceIDs[i] = state.layers[i].sampleTexture
                  /\ u.layerSurfaceScaleOffsets[i] = state.layers[i].sampleScaleOffset
                  /\ u.layerSampleParameters[i] = state.layers[i].sampleParameters
                  /\ u.layerMaskParameters[i] = state.layers[i].maskParameters
                  /\ u.layerMaskAxes[i] = state.layers[i].maskAxis
            /\ \A i \in LayerSlots : i > state.layerCount =>
                  \A f \in LayerFields : u[f][i] = ZeroOf(f)

\* A one-layer material was bound: slot 0 from LayerB, the other slots zero.
C6_Witness ==
    /\ callArgs.called = "_setMaterialState"
    /\ ~crashed
    /\ callArgs.state.layers = <<LayerB>>
    /\ gl.layerUniforms.layerSurfaceIDs[1] = 4
    /\ gl.layerUniforms.layerSurfaces[2] = 0

(***************************************************************************)
(* Render traversal.  The repository holds two builds of these functions:  *)
(* Avatar.cpp (the SDK sample) and part_000 (the application, which draws  *)
(* only components 4 and 5 and a laser line per part).  build selects one. *)
(***************************************************************************)
ovrAvatarVisibilityFlag_FirstPerson == 1

ovrAvatarVisibilityFlag_SelfOccluding == 4

\* a & b on unsigned integers
RECURSIVE BitAnd(_, _)
BitAnd(a, b) ==
    IF a = 0 \/ b = 0 THEN 0
    ELSE (a % 2) * (b % 2) + 2 * BitAnd(a \div 2, b \div 2)

\* What is read through a MeshData* that points at no MeshData.
MeshThrough(data) ==
    IF data.kind = "mesh" THEN data ELSE MeshData(GarbageName, GarbageName, <<>>, <<>>)

\* data->inverseBindPose[i]: a joint the bind pose does not have holds what
\* new MeshData() put there; through a pointer to no MeshData, anything.
inverseBindPoseAt(data, i) ==
    IF data.kind # "mesh" THEN Whole(glmTranslate(<<7, 7, 7>>))
    ELSE IF i <= Len(data.inverseBindPose) THEN data.inverseBindPose[i]
    ELSE Whole(mat4Zero)

\* An access through data: the process may die when data points at no MeshData.
DerefMesh(m, ub, data) ==
    IF ~m.crashed /\ data.kind # "mesh" /\ ub = "crash"
    THEN [m EXCEPT !.crashed = TRUE]
    ELSE m

Step(m, field, value) == IF m.crashed THEN m ELSE [m EXCEPT !.gl[field] = value]

\* glDrawElements(GL_TRIANGLES, data->elementCount, ...) under the current state
DrawElements(m, tag, data) ==
    IF m.crashed THEN m
    ELSE [m EXCEPT !.draws = Append(@,
             [part |-> tag,
              call |-> "glDrawElements",
              vertexArray |-> m.gl.boundVertexArray,
              count |-> MeshThrough(data).elementCount,
              program |-> m.gl.program,
              world |-> m.gl.world,
              meshPose |-> m.gl.meshPose,
              useProjector |-> m.gl.useProjector,
              projectorInv |-> m.gl.projectorInv,
              depthFunc |-> m.gl.depthFunc,
              depthMask |-> m.gl.depthMask,
              colorMask |-> m.gl.colorMask])]

\* The name of the vertex array of the debug lines (never a mesh's).
_debugVertexArray == 0 - 1

\* _renderDebugLine: the debug program, two vertices, glDrawArrays.
_renderDebugLine(build, m, tag, a, b, aColor) ==
    IF m.crashed THEN m
    ELSE LET m1 == Step(Step(m, "program", "debugLine"),
                        "boundVertexArray", _debugVertexArray)
             m2 == IF build = "part_000" THEN Step(m1, "depthFunc", "LEQUAL") ELSE m1
         IN  [m2 EXCEPT !.draws = Append(@,
                 [part |-> tag,
                  call |-> "glDrawArrays",
                  a |-> a,
                  b |-> b,
                  aColor |-> aColor,
                  program |-> m2.gl.program,
                  depthFunc |-> m2.gl.depthFunc,
                  depthMask |-> m2.gl.depthMask,
                  colorMask |-> m2.gl.colorMask])]

\* What lies before the first element of the alloca'd pose buffer.
GarbagePosition == <<7, 7, 7>>

\* Avatar.cpp: a line from skinnedPoses[parent] to skinnedPoses[i], i = 1, 2, ...
RECURSIVE renderPoseLinesFrom(_, _, _, _, _)
renderPoseLinesFrom(m, tag, pose, world, i) ==
    IF i > pose.jointCount THEN m
    ELSE LET parent == pose.jointParents[i]
             a == IF parent >= 0 /\ parent < pose.jointCount
                  THEN mat4Position(world[parent + 1]) ELSE GarbagePosition
         IN  renderPoseLinesFrom(
                 _renderDebugLine("Avatar.cpp", m, tag, a, mat4Position(world[i]),
                                  "white"),
                 tag, pose, world, i + 1)

\* _renderPose.  part_000 draws one laser line instead of the joint lines.
_renderPose(build, m, tag, pose, isRight) ==
    LET world == _computeWorldPose(pose, [i \in 1..pose.jointCount |-> mat4Zero])
    IN  IF build = "part_000"
        THEN _renderDebugLine(build, m, tag, <<0, 0, 0>>, <<0, 0, -200>>,
                              IF isRight THEN "laserColorRight" ELSE "laserColorLeft")
        ELSE renderPoseLinesFrom(m, tag, pose, world, 2)

\* _setMeshState: worldMat = world * local; the skinned pose in world space,
\* each joint times data->inverseBindPose[i]; the uniforms "world" and
\* "meshPose" (jointCount matrices: none are written for a pose of no joints).
_setMeshState(m, ub, localTransform, data, skinnedPose, world) ==
    LET worldMat == mat4Mul(world, _glmFromOvrAvatarTransform(localTransform))
        n == skinnedPose.jointCount
        skinnedPoses == _computeWorldPose(skinnedPose, [i \in 1..n |-> mat4Zero])
        meshPose == [i \in 1..n |->
                        fracMul(skinnedPoses[i], inverseBindPoseAt(data, i))]
        m1 == IF n > 0 THEN DerefMesh(m, ub, data) ELSE m
    IN  With(Step(m1, "world", worldMat), LAMBDA m2 :
            IF n > 0 THEN Step(m2, "meshPose", meshPose) ELSE m2)

\* glBindVertexArray(data->vertexArray)
BindMeshVertexArray(m, ub, data) ==
    Step(DerefMesh(m, ub, data), "boundVertexArray", MeshThrough(data).vertexArray)

\* The two draws of a self-occluding part, or the single draw, with the
\* state changes the build makes around them.
drawMesh(build, kind, m, tag, selfOccluding, data) ==
    LET full == build = "Avatar.cpp" \/ kind = "PBS"
    IN  With(Step(m, "depthFunc", IF full THEN "LESS" ELSE "LEQUAL"), LAMBDA m1 :
        With(IF ~selfOccluding THEN m1
             ELSE IF full
                  THEN Step(DrawElements(Step(Step(m1, "depthMask", TRUE),
                                              "colorMask", FALSE), tag, data),
                            "depthFunc", "EQUAL")
                  ELSE DrawElements(m1, tag, data),
             LAMBDA m2 :
            LET m3 == IF full THEN Step(m2, "depthMask", FALSE) ELSE m2
                m4 == DrawElements(Step(m3, "colorMask", TRUE), tag, data)
            IN  Step(m4, "boundVertexArray", 0)))

\* The tail of both mesh functions: Avatar.cpp draws the joints when asked
\* to, part_000 always draws the laser (its bool argument is isRight).
debugAfterMesh(build, m, tag, mesh, flag) ==
    IF build = "part_000" \/ flag
    THEN _renderPose(build, Step(m, "depthFunc", "ALWAYS"), tag, mesh.skinnedPose, flag)
    ELSE m

\* Variant of the visibility test that looks at the requested mask only.
VisibleIfRequested(partMask, visibilityMask) == visibilityMask # 0

\* (mesh->visibilityMask & visibilityMask) != 0
Visible(partMask, visibilityMask) == BitAnd(partMask, visibilityMask) # 0

SelfOccluding(partMask) == BitAnd(partMask, ovrAvatarVisibilityFlag_SelfOccluding) # 0

\* _renderSkinnedMeshPart
_renderSkinnedMeshPart(build, m, ub, tag, mesh, visibilityMask, world, flag) ==
    IF m.crashed \/ ~Visible(mesh.visibilityMask, visibilityMask) THEN m
    ELSE LET data == MapGet(m.assetMap, mesh.meshAssetID)
             m1 == [m EXCEPT !.assetMap = MapTouch(@, mesh.meshAssetID)]
             m2 == Step(m1, "program", "skinnedMesh")
             m3 == _setMeshState(m2, ub, mesh.localTransform, data, mesh.skinnedPose,
                                 world)
             m4 == _setMaterialState(m3, ub, mesh.materialState, NoProjector)
             m5 == BindMeshVertexArray(m4, ub, data)
             m6 == drawMesh(build, "skinned", m5, tag,
                            SelfOccluding(mesh.visibilityMask), data)
         IN  debugAfterMesh(build, m6, tag, mesh, flag)

\* _renderSkinnedMeshPartPBS
_renderSkinnedMeshPartPBS(build, m, ub, tag, mesh, visibilityMask, world, flag) ==
    IF m.crashed \/ ~Visible(mesh.visibilityMask, visibilityMask) THEN m
    ELSE LET data == MapGet(m.assetMap, mesh.meshAssetID)
             m1 == [m EXCEPT !.assetMap = MapTouch(@, mesh.meshAssetID)]
             m2 == Step(m1, "program", "skinnedMeshPBS")
             m3 == _setMeshState(m2, ub, mesh.localTransform, data, mesh.skinnedPose,
                                 world)
             m4 == _setPBSState(m3, ub, mesh.albedoTextureAssetID,
                                mesh.surfaceTextureAssetID)
             m5 == BindMeshVertexArray(m4, ub, data)
             m6 == drawMesh(build, "PBS", m5, tag,
                            SelfOccluding(mesh.visibilityMask), data)
         IN  debugAfterMesh(build, m6, tag, mesh, flag)

\* An ovrAvatarTransform read through an invalid pointer.
GarbageTransform == Transform(<<7, 7, 7>>, <<1, 0, 0, 0>>, <<1, 1, 1>>)

\* ovrAvatarComponent_Get / component->renderParts[index]: the addressed
\* object, or nothing valid when the index is out of range.
HasComponent(avatar, index) == index >= 0 /\ index < Len(avatar.components)

HasRenderPart(avatar, componentIndex, renderPartIndex) ==
    /\ HasComponent(avatar, componentIndex)
    /\ renderPartIndex >= 0
    /\ renderPartIndex < Len(avatar.components[componentIndex + 1].renderParts)

RenderPartAt(avatar, componentIndex, renderPartIndex) ==
    avatar.components[componentIndex + 1].renderParts[renderPartIndex + 1]

\* component->transform of the component a projector names
componentTransform(avatar, index) ==
    IF HasComponent(avatar, index) THEN avatar.components[index + 1].transform
    ELSE GarbageTransform

\* What is read through a pointer that addresses no skinned mesh part.
GarbageMesh ==
    [type |-> "SkinnedMeshRender",
     localTransform |-> GarbageTransform,
     visibilityMask |-> GarbageName,
     meshAssetID |-> GarbageName,
     skinnedPose |-> [jointCount |-> 0, jointParents |-> <<>>, jointTransform |-> <<>>]]

\* The skinned mesh part a projector refers to.
ProjectorMeshValid(avatar, projector) ==
    /\ HasRenderPart(avatar, projector.componentIndex, projector.renderPartIndex)
    /\ RenderPartAt(avatar, projector.componentIndex,
                    projector.renderPartIndex).type = "SkinnedMeshRender"

ProjectorMesh(avatar, projector) ==
    IF ProjectorMeshValid(avatar, projector)
    THEN RenderPartAt(avatar, projector.componentIndex, projector.renderPartIndex)
    ELSE GarbageMesh

\* A call of ovrAvatarComponent_Get (part = -1) or of a draw routine.
Visit(event, component, part, routine) ==
    [event |-> event, component |-> component, part |-> part, routine |-> routine]

Visited(m, visit) == IF m.crashed THEN m ELSE [m EXCEPT !.visits = Append(@, visit)]

\* _renderProjector: the mask tested is the one of the mesh referred to.
_renderProjector(m, ub, tag, projector, avatar, visibilityMask, world) ==
    IF m.crashed THEN m
    ELSE IF ~ProjectorMeshValid(avatar, projector) /\ ub = "crash"
    THEN [Visited(m, Visit("component", projector.componentIndex, -1,
                           "_renderProjector"))
             EXCEPT !.crashed = TRUE]
    ELSE LET mesh == ProjectorMesh(avatar, projector)
             m0 == Visited(m, Visit("component", projector.componentIndex, -1,
                                    "_renderProjector"))
         IN  IF ~Visible(mesh.visibilityMask, visibilityMask) THEN m0
             ELSE LET projection == _glmFromOvrAvatarTransform(projector.localTransform)
                      worldProjection == mat4Mul(world, projection)
                      projectionInv == glmInverse(worldProjection)
                      meshWorld == _glmFromOvrAvatarTransform(
                                       componentTransform(avatar,
                                                          projector.componentIndex))
                      data == MapGet(m0.assetMap, mesh.meshAssetID)
                      m1 == [m0 EXCEPT !.assetMap = MapTouch(@, mesh.meshAssetID)]
                      m2 == Step(m1, "program", "skinnedMesh")
                      m3 == _setMeshState(m2, ub, mesh.localTransform, data,
                                          mesh.skinnedPose, meshWorld)
                      m4 == _setMaterialState(m3, ub, projector.materialState,
                                              ProjectorInv(projectionInv))
                      m5 == BindMeshVertexArray(m4, ub, data)
                      m6 == Step(Step(m5, "depthMask", FALSE), "depthFunc", "EQUAL")
                  IN  Step(DrawElements(m6, tag, data), "boundVertexArray", 0)

\* The switch on the render part type; a part of another type is passed over.
renderPart(build, m, ub, tag, part, avatar, visibilityMask, flag) ==
    With(_glmFromOvrAvatarTransform(avatar.components[tag[1] + 1].transform),
         LAMBDA world :
    CASE part.type = "SkinnedMeshRender" ->
             _renderSkinnedMeshPart(build,
                 Visited(m, Visit("part", tag[1], tag[2], "_renderSkinnedMeshPart")),
                 ub, tag, part, visibilityMask, world, flag)
      [] part.type = "SkinnedMeshRenderPBS" ->
             _renderSkinnedMeshPartPBS(build,
                 Visited(m, Visit("part", tag[1], tag[2], "_renderSkinnedMeshPartPBS")),
                 ub, tag, part, visibilityMask, world, flag)
      [] part.type = "ProjectorRender" ->
             _renderProjector(
                 Visited(m, Visit("part", tag[1], tag[2], "_renderProjector")),
                 ub, tag, part, avatar, visibilityMask, world)
      [] OTHER -> m)

\* for (j = 0; j < component->renderPartCount; ++j), from part j on
RECURSIVE renderPartsFrom(_, _, _, _, _, _, _, _)
renderPartsFrom(build, m, ub, avatar, i, j, visibilityMask, flag) ==
    LET parts == avatar.components[i + 1].renderParts
    IN  IF j >= Len(parts) THEN m
        ELSE renderPartsFrom(build,
                 renderPart(build, m, ub, <<i, j>>, parts[j + 1], avatar,
                            visibilityMask, flag),
                 ub, avatar, i, j + 1, visibilityMask, flag)

\* One pass of the component loop.  A component index the avatar does not
\* have is read through an invalid pointer.
renderComponent(build, m, ub, avatar, i, visibilityMask, flag) ==
    LET m0 == Visited(m, Visit("component", i, -1, "_renderAvatar"))
    IN  IF m.crashed THEN m
        ELSE IF HasComponent(avatar, i)
        THEN renderPartsFrom(build, m0, ub, avatar, i, 0, visibilityMask, flag)
        ELSE IF ub = "crash" THEN [m0 EXCEPT !.crashed = TRUE] ELSE m0

RECURSIVE renderComponentsFrom(_, _, _, _, _, _, _, _)
renderComponentsFrom(build, m, ub, avatar, i, last, visibilityMask, flag) ==
    IF i >= last THEN m
    ELSE renderComponentsFrom(build,
             renderComponent(build, m, ub, avatar, i, visibilityMask,
                             IF build = "part_000" THEN i = 5 ELSE flag),
             ub, avatar, i + 1, last, visibilityMask, flag)

\* _renderAvatar of Avatar.cpp: every component, every render part.
_renderAvatar(m, ub, avatar, visibilityMask, renderJoints) ==
    renderComponentsFrom("Avatar.cpp", m, ub, avatar, 0, Len(avatar.components),
                         visibilityMask, renderJoints)

\* _renderAvatar of part_000: for (i = 4; i < 6; ++i), the two hands.
_renderAvatarHands(m, ub, avatar, visibilityMask) ==
    renderComponentsFrom("part_000", m, ub, avatar, 4, 6, visibilityMask, FALSE)

(***************************************************************************)
(* SpecRender: an avatar with its render parts, assets arriving in any     *)
(* order, and render traversals under every requested visibility mask.     *)
(***************************************************************************)
PlainMaterial == MaterialState(0, 0, 0, 0, <<>>)

TexturedMaterial == MaterialState(3, 0, 0, 0, <<LayerA>>)

SkinnedMeshRender(mask, meshAssetID, pose, material) ==
    [type |-> "SkinnedMeshRender",
     localTransform |-> IdentityTransform,
     visibilityMask |-> mask,
     meshAssetID |-> meshAssetID,
     skinnedPose |-> pose,
     materialState |-> material]

SkinnedMeshRenderPBS(mask, meshAssetID, albedo, surface) ==
    [type |-> "SkinnedMeshRenderPBS",
     localTransform |-> IdentityTransform,
     visibilityMask |-> mask,
     meshAssetID |-> meshAssetID,
     skinnedPose |-> NoJoints,
     albedoTextureAssetID |-> albedo,
     surfaceTextureAssetID |-> surface]

ProjectorRender(componentIndex, renderPartIndex, material) ==
    [type |-> "ProjectorRender",
     localTransform |-> IdentityTransform,
     componentIndex |-> componentIndex,
     renderPartIndex |-> renderPartIndex,
     materialState |-> material]

\* A render part of a type the switch has no case for.
OtherRenderPart == [type |-> "Other"]

Component(parts) == [transform |-> IdentityTransform, renderParts |-> parts]

\* A component or a render part at a transform of its own.
ComponentAt(transform, parts) == [transform |-> transform, renderParts |-> parts]

Placed(part, localTransform) == [part EXCEPT !.localTransform = localTransform]

\* Components 0..3 (body and controllers), then the two hands.
Avatar(left, right) ==
    [present |-> TRUE,
     components |-> <<Component(<<SkinnedMeshRender(2, 1, NoJoints, PlainMaterial)>>),
                      Component(<<>>), Component(<<>>), Component(<<>>),
                      Component(left), Component(right)>>]

\* The hands of the avatars rendered: skinned, PBS and projector parts, part
\* masks 1..6, one part of a type the traversal does not know.
Avatars ==
    {Avatar(<<SkinnedMeshRender(5, 1, TwoJoints, PlainMaterial)>>,
            <<SkinnedMeshRender(2, 2, NoJoints, PlainMaterial)>>),
     Avatar(<<SkinnedMeshRender(1, 2, NoJoints, PlainMaterial),
              SkinnedMeshRenderPBS(3, 1, 0, 0)>>,
            <<SkinnedMeshRender(1, 1, NoJoints, PlainMaterial)>>),
     Avatar(<<SkinnedMeshRender(5, 1, NoJoints, TexturedMaterial),
              ProjectorRender(4, 0, PlainMaterial)>>,
            <<ProjectorRender(4, 0, PlainMaterial),
              SkinnedMeshRender(6, 2, NoJoints, PlainMaterial)>>),
     Avatar(<<OtherRenderPart,
              SkinnedMeshRenderPBS(4, 2, 3, 0),
              SkinnedMeshRender(3, 1, NoJoints, PlainMaterial)>>,
            <<SkinnedMeshRender(1, 1, NoJoints, PlainMaterial)>>),
     [present |-> TRUE,
      components |-> <<Component(<<SkinnedMeshRender(1, 2, TwoJoints,
                                                     PlainMaterial)>>)>>]}

VisibilityMasks == {0, 1, 2, 5}

\* Strictly increasing sequences: every asset is requested at most once.
Increasing(s) == \A j \in 1..(Len(s) - 1) : s[j] < s[j + 1]

\* The load of mesh 2 never completes.
RenderLoads == {s \in SeqsUpTo({1, 3}, MaxRefs) : Increasing(s)}

InitRender ==
    /\ IdlePose
    /\ IdleUpdate
    /\ IdleScene
    /\ IdleFrame
    /\ _avatar \in Avatars
    /\ pendingLoads \in RenderLoads
    /\ _loadingAssets = Len(pendingLoads)
    /\ _assetMap = EmptyMap
    /\ gl = GlFresh
    /\ bindLog = <<>>
    /\ drawLog = <<>>
    /\ visitLog = <<>>
    /\ crashed = FALSE
    /\ callArgs = [called |-> "none"]
    /\ lastStored = EmptyMap

RenderArgs(build, visibilityMask, renderJoints) ==
    [called |-> "_renderAvatar",
     build |-> build,
     visibilityMask |-> visibilityMask,
     renderJoints |-> renderJoints,
     assetMapBefore |-> _assetMap]

\* _renderAvatar(avatar, visibilityMask, view, proj, viewPos, renderJoints)
RenderAvatarCall ==
    /\ ~crashed
    /\ \E visibilityMask \in VisibilityMasks, renderJoints \in BOOLEAN,
          ub \in UBOutcomes :
        Commit(_renderAvatar(Machine(_assetMap, gl), ub, _avatar, visibilityMask,
                             renderJoints),
               RenderArgs("Avatar.cpp", visibilityMask, renderJoints))

\* The traversal of the application build (part_000).
RenderAvatarHandsCall ==
    /\ ~crashed
    /\ \E visibilityMask \in VisibilityMasks, ub \in UBOutcomes :
        Commit(_renderAvatarHands(Machine(_assetMap, gl), ub, _avatar, visibilityMask),
               RenderArgs("part_000", visibilityMask, FALSE))

NextRender ==
    \/ HandleAssetLoaded
    \/ RenderAvatarCall
    \/ RenderAvatarHandsCall

SpecRender == InitRender /\ [][NextRender]_vars

(***************************************************************************)
(* SpecProjector: the same calls on avatars whose components and parts     *)
(* stand at transforms of their own, with projectors that name a part of   *)
(* another component, and on avatars whose projector names a component or  *)
(* a part the avatar does not have.                                        *)
(***************************************************************************)
BodyComponent == Component(<<SkinnedMeshRender(2, 1, NoJoints, PlainMaterial)>>)

ProjectorAvatars ==
    {[present |-> TRUE,
      components |->
          <<BodyComponent, Component(<<>>), Component(<<>>), Component(<<>>),
            ComponentAt(translateY1,
                <<Placed(SkinnedMeshRender(5, 1, TwoJointsMoved, PlainMaterial),
                         turnXScaled),
                  SkinnedMeshRender(1, 1, TwoJoints, PlainMaterial),
                  SkinnedMeshRenderPBS(5, 1, 0, 0)>>),
            ComponentAt(turnXScaled,
                <<Placed(ProjectorRender(4, 0, TexturedMaterial), translateY1),
                  ProjectorRender(4, 1, PlainMaterial)>>)>>],
     Avatar(<<SkinnedMeshRender(1, 1, NoJoints, PlainMaterial)>>,
            <<ProjectorRender(6, 0, PlainMaterial)>>),
     Avatar(<<SkinnedMeshRender(1, 1, NoJoints, PlainMaterial)>>,
            <<ProjectorRender(4, 1, PlainMaterial)>>)}

InitProjector ==
    /\ IdlePose
    /\ IdleUpdate
    /\ IdleScene
    /\ IdleFrame
    /\ _avatar \in ProjectorAvatars
    /\ pendingLoads \in RenderLoads
    /\ _loadingAssets = Len(pendingLoads)
    /\ _assetMap = EmptyMap
    /\ gl = GlFresh
    /\ bindLog = <<>>
    /\ drawLog = <<>>
    /\ visitLog = <<>>
    /\ crashed = FALSE
    /\ callArgs = [called |-> "none"]
    /\ lastStored = EmptyMap

SpecProjector == InitProjector /\ [][NextRender]_vars

(***************************************************************************)
(* SpecJoints: the same traversal over hands whose skeletons have their    *)
(* root joints at any index.                                               *)
(***************************************************************************)
\* Two roots; a root and its two children; a root, its child and a second
\* root; a chain of three.
TwoRoots ==
    [jointCount |-> 2,
     jointParents |-> <<-1, -1>>,
     jointTransform |-> <<translateY1, turnXScaled>>]

ThreeJoints(parents) ==
    [jointCount |-> 3,
     jointParents |-> parents,
     jointTransform |-> <<translateY1, turnXScaled, translateY1>>]

JointPoses ==
    {TwoJoints, TwoRoots, ThreeJoints(<<-1, 0, 0>>), ThreeJoints(<<-1, 0, -1>>),
     ThreeJoints(<<-1, 0, 1>>)}

JointAvatars ==
    {Avatar(<<SkinnedMeshRender(1, 1, pose, PlainMaterial)>>,
            <<SkinnedMeshRender(1, 1, TwoJoints, PlainMaterial)>>) : pose \in JointPoses}

InitJoints ==
    /\ IdlePose
    /\ IdleUpdate
    /\ IdleScene
    /\ IdleFrame
    /\ _avatar \in JointAvatars
    /\ pendingLoads \in RenderLoads
    /\ _loadingAssets = Len(pendingLoads)
    /\ _assetMap = EmptyMap
    /\ gl = GlFresh
    /\ bindLog = <<>>
    /\ drawLog = <<>>
    /\ visitLog = <<>>
    /\ crashed = FALSE
    /\ callArgs = [called |-> "none"]
    /\ lastStored = EmptyMap

SpecJoints == InitJoints /\ [][NextRender]_vars

\* The render parts a traversal visits, as <<component, part>> index pairs.
TraversedComponents(avatar, build) ==
    {i \in 0..(Len(avatar.components) - 1) : build = "Avatar.cpp" \/ i \in {4, 5}}

TraversedParts(avatar, build) ==
    UNION {{<<i, j>> : j \in 0..(Len(avatar.components[i + 1].renderParts) - 1)} :
              i \in TraversedComponents(avatar, build)}

DrawnTypes == {"SkinnedMeshRender", "SkinnedMeshRenderPBS", "ProjectorRender"}

\* The mesh whose mask and asset a part is drawn with: its own, or for a
\* projector the one it refers to.
MeshOfPart(avatar, part) ==
    IF part.type = "ProjectorRender" THEN ProjectorMesh(avatar, part) ELSE part

DrawsOf(tag) == {k \in 1..Len(drawLog) : drawLog[k].part = tag}

\* C4: a skinned-mesh, PBS or projector part whose mesh asset has no loaded
\* resource in the cache is skipped (no draw call, no access through the
\* missing resource: the traversal neither dies nor draws from garbage), and
\* the remaining visible parts with a loaded mesh are still drawn in the
\* same _renderAvatar call.
C4_MissingMeshSkipped ==
    callArgs.called = "_renderAvatar" =>
        LET parts == {tag \in TraversedParts(_avatar, callArgs.build) :
                         RenderPartAt(_avatar, tag[1], tag[2]).type \in DrawnTypes}
            mesh(tag) == MeshOfPart(_avatar, RenderPartAt(_avatar, tag[1], tag[2]))
            missing(tag) == ~HasResource(callArgs.assetMapBefore, mesh(tag).meshAssetID)
            visible(tag) == BitAnd(mesh(tag).visibilityMask, callArgs.visibilityMask) # 0
        IN  (\E tag \in parts : missing(tag)) =>
                /\ ~crashed
                /\ \A tag \in parts : missing(tag) => DrawsOf(tag) = {}
                /\ \A tag \in parts :
                      (visible(tag) /\ ~missing(tag)) => DrawsOf(tag) # {}

\* The draw routine of a render part type.
RoutineOf(type) ==
    CASE type = "SkinnedMeshRender" -> "_renderSkinnedMeshPart"
      [] type = "SkinnedMeshRenderPBS" -> "_renderSkinnedMeshPartPBS"
      [] type = "ProjectorRender" -> "_renderProjector"
      [] OTHER -> "none"

\* Every part of a component in index order, each sent to its routine.
RECURSIVE PartVisitsFrom(_, _, _)
PartVisitsFrom(parts, i, j) ==
    IF j >= Len(parts) THEN <<>>
    ELSE (IF parts[j + 1].type \in DrawnTypes
          THEN <<Visit("part", i, j, RoutineOf(parts[j + 1].type))>>
          ELSE <<>>)
         \o PartVisitsFrom(parts, i, j + 1)

\* Every component in index order, each followed by its parts.
RECURSIVE ComponentVisitsFrom(_, _)
ComponentVisitsFrom(avatar, i) ==
    IF i >= Len(avatar.components) THEN <<>>
    ELSE <<Visit("component", i, -1, "_renderAvatar")>>
         \o PartVisitsFrom(avatar.components[i + 1].renderParts, i, 0)
         \o ComponentVisitsFrom(avatar, i + 1)

\* The visits of the traversal itself (a projector's look-up of the
\* component it refers to is not one).
IsTraversalVisit(v) == ~(v.event = "component" /\ v.routine = "_renderProjector")

AllParts(avatar) == TraversedParts(avatar, "Avatar.cpp")

\* C12: for an avatar with n components one _renderAvatar call requests
\* the components 0..n-1, each once, in ascending order, and no index >= n;
\* in each component every part index is dispatched once, in order, to the
\* draw routine of its type, and a part of another type issues no draw.
C12_TraversalOrder ==
    (callArgs.called = "_renderAvatar" /\ ~crashed) =>
        /\ SelectSeq(visitLog, IsTraversalVisit) = ComponentVisitsFrom(_avatar, 0)
        /\ \A k \in 1..Len(visitLog) :
              visitLog[k].event = "component"
                  => visitLog[k].component < Len(_avatar.components)
        /\ \A tag \in AllParts(_avatar) :
              RenderPartAt(_avatar, tag[1], tag[2]).type \notin DrawnTypes
                  => DrawsOf(tag) = {}

\* A projector part that names a component or a render part the avatar
\* does not have.
OutOfRangeProjector(avatar, part) ==
    /\ part.type = "ProjectorRender"
    /\ ~HasRenderPart(avatar, part.componentIndex, part.renderPartIndex)

\* C13: a projector part whose componentIndex is not below the component
\* count, or whose renderPartIndex is not below the part count of the
\* component it names, is skipped: no draw call for it, no look-up of a
\* component index the avatar does not have, and the traversal does not die.
\* (Stated for calls that find the mesh of every other part loaded.)
C13_OutOfRangeProjectorSkipped ==
    (callArgs.called = "_renderAvatar" /\ HasResource(callArgs.assetMapBefore, 1)) =>
        \A tag \in TraversedParts(_avatar, callArgs.build) :
            OutOfRangeProjector(_avatar, RenderPartAt(_avatar, tag[1], tag[2])) =>
                /\ ~crashed
                /\ DrawsOf(tag) = {}
                /\ \A k \in 1..Len(visitLog) :
                      visitLog[k].event = "component"
                          => visitLog[k].component < Len(_avatar.components)

\* The glDrawElements calls of a part.
MeshDrawsOf(tag) == {k \in DrawsOf(tag) : drawLog[k].call = "glDrawElements"}

\* The parts of the call whose mesh (for a projector, the mesh of the part
\* it names) was in the cache when the call began.
LoadedParts ==
    {tag \in TraversedParts(_avatar, callArgs.build) :
        LET part == RenderPartAt(_avatar, tag[1], tag[2])
        IN  /\ part.type \in DrawnTypes
            /\ ~OutOfRangeProjector(_avatar, part)
            /\ HasResource(callArgs.assetMapBefore,
                           MeshOfPart(_avatar, part).meshAssetID)}

\* The part is drawn with the skeleton in the bind pose of its mesh asset.
InBindPose(mesh) ==
    /\ mesh.skinnedPose.jointCount > 0
    /\ mesh.skinnedPose = AssetOf(mesh.meshAssetID).skinnedBindPose

\* C14: when the skinned pose a mesh is drawn with equals the bind pose of
\* its mesh asset, every skin matrix uploaded as "meshPose" for the draw
\* (world pose of joint i times the inverse bind pose cached at load time)
\* is the identity matrix.
C14_BindPoseSkinIsIdentity ==
    (callArgs.called = "_renderAvatar" /\ ~crashed) =>
        \A tag \in LoadedParts :
            LET mesh == MeshOfPart(_avatar, RenderPartAt(_avatar, tag[1], tag[2]))
            IN  InBindPose(mesh) =>
                    \A k \in MeshDrawsOf(tag) :
                        /\ Len(drawLog[k].meshPose) = mesh.skinnedPose.jointCount
                        /\ \A i \in 1..Len(drawLog[k].meshPose) :
                              drawLog[k].meshPose[i] = Whole(mat4Identity)

\* A two-joint part in its bind pose has been drawn (and in the same call a
\* part away from its bind pose, with a skin matrix that is not the identity).
C14_Witness ==
    /\ callArgs.called = "_renderAvatar"
    /\ ~crashed
    /\ \E tag \in LoadedParts :
          /\ InBindPose(MeshOfPart(_avatar, RenderPartAt(_avatar, tag[1], tag[2])))
          /\ MeshDrawsOf(tag) # {}
    /\ \E k \in 1..Len(drawLog) :
          /\ drawLog[k].call = "glDrawElements"
          /\ Len(drawLog[k].meshPose) = 2
          /\ drawLog[k].meshPose[2] # Whole(mat4Identity)

\* The visible skinned-mesh and PBS parts of the call whose mesh is loaded.
VisibleMeshParts ==
    {tag \in LoadedParts :
        LET part == RenderPartAt(_avatar, tag[1], tag[2])
        IN  /\ part.type \in {"SkinnedMeshRender", "SkinnedMeshRenderPBS"}
            /\ Visible(part.visibilityMask, callArgs.visibilityMask)}

\* The k-th (k = 1, 2, ...) glDrawElements call of a part.
MeshDraw(tag, k) ==
    drawLog[CHOOSE j \in MeshDrawsOf(tag) :
                Cardinality({i \in MeshDrawsOf(tag) : i <= j}) = k]

\* C16: a visible skinned-mesh or PBS part with the self-occluding flag is
\* drawn by exactly two mesh draw calls, first a depth-only prepass (color
\* writes off, depth writes on), then the color pass (depth function EQUAL,
\* color writes on, depth writes off); a visible part without the flag is
\* drawn by exactly one.
C16_SelfOccludingPrepass ==
    (callArgs.called = "_renderAvatar" /\ ~crashed) =>
        \A tag \in VisibleMeshParts :
            IF SelfOccluding(RenderPartAt(_avatar, tag[1], tag[2]).visibilityMask)
            THEN /\ Cardinality(MeshDrawsOf(tag)) = 2
                 /\ MeshDraw(tag, 1).colorMask = FALSE
                 /\ MeshDraw(tag, 1).depthMask = TRUE
                 /\ MeshDraw(tag, 2).depthFunc = "EQUAL"
                 /\ MeshDraw(tag, 2).colorMask = TRUE
                 /\ MeshDraw(tag, 2).depthMask = FALSE
            ELSE Cardinality(MeshDrawsOf(tag)) = 1

\* The visible projector parts of the call whose mesh is loaded.
VisibleProjectors ==
    {tag \in LoadedParts :
        LET part == RenderPartAt(_avatar, tag[1], tag[2])
        IN  /\ part.type = "ProjectorRender"
            /\ Visible(ProjectorMesh(_avatar, part).visibilityMask,
                       callArgs.visibilityMask)}

\* world * local of a component and a part or projector in it
WorldOf(componentIndex, localTransform) ==
    mat4Mul(_glmFromOvrAvatarTransform(_avatar.components[componentIndex + 1].transform),
            _glmFromOvrAvatarTransform(localTransform))

\* C17: a visible projector part issues exactly one draw call, with depth
\* writes off and depth function EQUAL, with the vertex array, element count,
\* world matrix and skinned pose of the part it names, with useProjector = 1
\* and with projectorInv the inverse of (world of the projector's component
\* * local transform of the projector).
C17_ProjectorDraw ==
    (callArgs.called = "_renderAvatar" /\ ~crashed) =>
        \A tag \in VisibleProjectors :
            LET projector == RenderPartAt(_avatar, tag[1], tag[2])
                mesh == ProjectorMesh(_avatar, projector)
                data == MapGet(callArgs.assetMapBefore, mesh.meshAssetID)
                pose == _computeWorldPose(mesh.skinnedPose,
                            [i \in 1..mesh.skinnedPose.jointCount |-> mat4Zero])
            IN  /\ Cardinality(DrawsOf(tag)) = 1
                /\ \A k \in DrawsOf(tag) :
                      /\ drawLog[k].call = "glDrawElements"
                      /\ drawLog[k].depthMask = FALSE
                      /\ drawLog[k].depthFunc = "EQUAL"
                      /\ drawLog[k].vertexArray = data.vertexArray
                      /\ drawLog[k].count = data.elementCount
                      /\ drawLog[k].world
                            = WorldOf(projector.componentIndex, mesh.localTransform)
                      /\ \A i \in 1..mesh.skinnedPose.jointCount :
                            drawLog[k].meshPose[i]
                                = fracMul(pose[i], data.inverseBindPose[i])
                      /\ drawLog[k].useProjector = 1
                      /\ fracMul(WorldOf(tag[1], projector.localTransform),
                                 drawLog[k].projectorInv) = Whole(mat4Identity)

\* A projector of a turned and scaled component, itself moved within the
\* component, has been drawn over the part of another component.
C17_Witness ==
    /\ callArgs.called = "_renderAvatar"
    /\ ~crashed
    /\ \E tag \in VisibleProjectors :
          LET projector == RenderPartAt(_avatar, tag[1], tag[2])
          IN  /\ projector.componentIndex # tag[1]
              /\ projector.localTransform # IdentityTransform
              /\ _avatar.components[tag[1] + 1].transform
                    \notin {IdentityTransform,
                            _avatar.components[projector.componentIndex + 1].transform}
              /\ DrawsOf(tag) # {}

\* The debug lines of a part, in the order drawn: the two end points.
LineDraws(tag) ==
    LET IsLine(e) == e.part = tag /\ e.call = "glDrawArrays"
        lines == SelectSeq(drawLog, IsLine)
    IN  [k \in 1..Len(lines) |-> <<lines[k].a, lines[k].b>>]

\* One segment per joint with a parent, from the parent's world position to
\* the joint's, in joint order.
RECURSIVE jointLinesFrom(_, _, _)
jointLinesFrom(pose, world, i) ==
    IF i > pose.jointCount THEN <<>>
    ELSE (IF pose.jointParents[i] >= 0
          THEN << <<mat4Position(world[pose.jointParents[i] + 1]),
                    mat4Position(world[i])>> >>
          ELSE <<>>) \o jointLinesFrom(pose, world, i + 1)

JointLines(pose) ==
    jointLinesFrom(pose,
                   _computeWorldPose(pose, [i \in 1..pose.jointCount |-> mat4Zero]), 1)

\* C21: with joint debugging enabled the debug path draws, for every
\* visible mesh part, exactly one segment per non-root joint (parent index
\* >= 0), from the parent's world position to the joint's, and no segment
\* for a root joint (negative parent index), whatever index the root has.
C21_OneLinePerNonRootJoint ==
    (/\ callArgs.called = "_renderAvatar"
     /\ callArgs.build = "Avatar.cpp"
     /\ callArgs.renderJoints
     /\ ~crashed) =>
        \A tag \in VisibleMeshParts :
            LineDraws(tag) = JointLines(RenderPartAt(_avatar, tag[1], tag[2]).skinnedPose)

\* C22: a _renderAvatar call with debug joints disabled (false) issues no
\* debug-line draw call for any render part.
C22_NoDebugLinesWhenDisabled ==
    (/\ callArgs.called = "_renderAvatar"
     /\ ~callArgs.renderJoints
     /\ ~crashed) =>
        \A k \in 1..Len(drawLog) : drawLog[k].call # "glDrawArrays"

\* A step that handles an asset-loaded message (_handleAssetLoaded ends with
\* --_loadingAssets; no other routine lowers the counter).
AssetLoadedStep == _loadingAssets' = _loadingAssets - 1

\* C27: the asset cache is changed only by handling an asset-loaded message:
\* a step of a render or material-binding operation (_renderAvatar,
\* _setMaterialState, _setPBSState and what they call) that returns leaves
\* _assetMap, and with it the set of cached ids, as it was before the call.
C27_RenderKeepsAssetMap ==
    [][(~AssetLoadedStep /\ ~crashed') =>
          /\ DOMAIN _assetMap' = DOMAIN _assetMap
          /\ _assetMap' = _assetMap]_vars

\* C5: a render part (skinned mesh, PBS skinned mesh, or projector through
\* the mesh it refers to) whose visibility mask has no bit in common with
\* the mask passed to _renderAvatar has no draw call in that traversal, mesh
\* draw or debug line, whatever the two masks are.
C5_MaskedPartNotDrawn ==
    callArgs.called = "_renderAvatar" =>
        \A tag \in TraversedParts(_avatar, callArgs.build) :
            LET part == RenderPartAt(_avatar, tag[1], tag[2])
            IN  (/\ part.type \in DrawnTypes
                 /\ BitAnd(MeshOfPart(_avatar, part).visibilityMask,
                           callArgs.visibilityMask) = 0)
                    => DrawsOf(tag) = {}

\* The application build asked for mask 2 on the hand <<mask 1, mask 3 PBS>>:
\* the first part has no draw, the second its mesh draw and its laser line.
C5_Witness ==
    /\ callArgs.called = "_renderAvatar"
    /\ callArgs.build = "part_000"
    /\ callArgs.visibilityMask = 2
    /\ ~crashed
    /\ HasResource(callArgs.assetMapBefore, 1)
    /\ HasRenderPart(_avatar, 4, 1)
    /\ RenderPartAt(_avatar, 4, 0).type = "SkinnedMeshRender"
    /\ RenderPartAt(_avatar, 4, 0).visibilityMask = 1
    /\ DrawsOf(<<4, 0>>) = {}
    /\ \E k \in DrawsOf(<<4, 1>>) : drawLog[k].call = "glDrawElements"
    /\ \E k \in DrawsOf(<<4, 1>>) : drawLog[k].call = "glDrawArrays"

(***************************************************************************)
(* Frame loop of the application (part_000): GlfwApp::run calls update()   *)
(* and draw() once per frame; update() drains the avatar SDK's message     *)
(* queue, which the SDK fills at any time.                                 *)
(***************************************************************************)
\* What ovrAvatar_Create builds and which assets it refers to.
AvatarSpec(avatar, refs) == [avatar |-> avatar, referencedAssets |-> refs]

NoAvatarSpec == AvatarSpec(NoAvatar, <<>>)

\* An ovrAvatarMessage with the payload of its type.
Message(id, type, assetID, avatarSpec) ==
    [present |-> TRUE,
     id |-> id,
     type |-> type,
     assetID |-> assetID,
     asset |-> AssetOf(assetID),
     avatarSpec |-> avatarSpec]

Event(event, id, handler) ==
    [event |-> event, id |-> id, handler |-> handler, frame |-> frame]

\* The loop of _handleAvatarSpecification: ovrAvatarAsset_BeginLoading(id);
\* ++_loadingAssets for every referenced asset, from index i on.
RECURSIVE beginLoadingFrom(_, _, _, _)
beginLoadingFrom(refs, i, requests, loading) ==
    IF i > Len(refs) THEN [requests |-> requests, loadingAssets |-> loading]
    ELSE beginLoadingFrom(refs, i + 1, Append(requests, refs[i]), loading + 1)

\* Variant of the handler that requests the assets without counting them.
_handleAvatarSpecificationUncounted(msg, loading) ==
    With(beginLoadingFrom(msg.avatarSpec.referencedAssets, 1, <<>>, loading), LAMBDA r :
        [avatar |-> msg.avatarSpec.avatar,
         requests |-> r.requests,
         loadingAssets |-> loading])

\* _handleAvatarSpecification: create the avatar, request its assets.
_handleAvatarSpecification(msg, loading) ==
    With(beginLoadingFrom(msg.avatarSpec.referencedAssets, 1, <<>>, loading), LAMBDA r :
        [avatar |-> msg.avatarSpec.avatar,
         requests |-> r.requests,
         loadingAssets |-> r.loadingAssets])

\* The statics the handlers work on, with the SDK calls they make.
AppNow ==
    [avatar |-> _avatar,
     loadingAssets |-> _loadingAssets,
     assetMap |-> _assetMap,
     gl |-> gl,
     lastStored |-> lastStored,
     requests |-> <<>>,
     events |-> <<>>]

caseAvatarSpecification(a, msg) ==
    With(_handleAvatarSpecification(msg, a.loadingAssets), LAMBDA r :
        [a EXCEPT !.avatar = r.avatar,
                  !.loadingAssets = r.loadingAssets,
                  !.requests = @ \o r.requests,
                  !.events = Append(@, Event("handle", msg.id,
                                             "_handleAvatarSpecification"))])

\* Variant of the case that frees the message without handling it.
caseAssetLoadedIgnored(a, msg) == a

caseAssetLoaded(a, msg) ==
    With(_handleAssetLoaded(msg, a.assetMap, a.loadingAssets, a.gl), LAMBDA r :
        [a EXCEPT !.assetMap = r.assetMap,
                  !.loadingAssets = r.loadingAssets,
                  !.gl = r.gl,
                  !.lastStored = MapPut(@, msg.assetID, r.stored),
                  !.events = Append(@, Event("handle", msg.id, "_handleAssetLoaded"))])

\* Variant of the switch without the break after the first case.
dispatchFallThrough(a, msg) ==
    CASE msg.type = "AvatarSpecification" ->
             caseAssetLoaded(caseAvatarSpecification(a, msg), msg)
      [] msg.type = "AssetLoaded" -> caseAssetLoaded(a, msg)
      [] OTHER -> a

\* switch (ovrAvatarMessage_GetType(message)): two cases, no default.
dispatch(a, msg) ==
    CASE msg.type = "AvatarSpecification" -> caseAvatarSpecification(a, msg)
      [] msg.type = "AssetLoaded" -> caseAssetLoaded(a, msg)
      [] OTHER -> a

\* The avatars the SDK may answer the specification request with: the hands
\* and the assets they refer to.
FrameSpecs ==
    {AvatarSpec(Avatar(<<SkinnedMeshRender(1, 1, TwoJoints, PlainMaterial)>>,
                       <<SkinnedMeshRender(5, 1, NoJoints, PlainMaterial)>>),
                <<1>>),
     AvatarSpec(Avatar(<<SkinnedMeshRender(5, 1, NoJoints, TexturedMaterial)>>,
                       <<SkinnedMeshRenderPBS(3, 1, 3, 0)>>),
                <<1, 3>>),
     AvatarSpec(Avatar(<<>>, <<>>), <<>>),
     AvatarSpec(Avatar(<<SkinnedMeshRender(1, 1, NoJoints,
                                           MaterialState(4, 0, 0, 0, <<>>))>>,
                       <<>>),
                <<1, 4>>),
     AvatarSpec(Avatar(<<>>, <<>>), <<1, 1>>)}

\* After initGl: ovrAvatar_RequestAvatarSpecification has been called once.
InitFrame ==
    /\ IdlePose
    /\ IdleUpdate
    /\ IdleScene
    /\ _avatar = NoAvatar
    /\ _loadingAssets = 0
    /\ _assetMap = EmptyMap
    /\ gl = GlFresh
    /\ bindLog = <<>>
    /\ drawLog = <<>>
    /\ visitLog = <<>>
    /\ crashed = FALSE
    /\ callArgs = [called |-> "none"]
    /\ pendingLoads = <<>>
    /\ lastStored = EmptyMap
    /\ messageQueue = <<>>
    /\ popped = NoMessage
    /\ framePc = "loop"
    /\ frame = 0
    /\ eventLog = <<>>
    /\ \E spec \in FrameSpecs :
          sdk = [specificationRequested |-> TRUE,
                 avatarSpec |-> spec,
                 nextMessageID |-> 1,
                 otherMessages |-> 0]

Running == ~crashed /\ framePc \notin {"idle", "closed"}

Enqueue(type, assetID, avatarSpec) ==
    messageQueue' = Append(messageQueue,
                           Message(sdk.nextMessageID, type, assetID, avatarSpec))

\* The SDK answers the specification request.
DeliverSpecification ==
    /\ Running
    /\ sdk.specificationRequested
    /\ Enqueue("AvatarSpecification", 0, sdk.avatarSpec)
    /\ sdk' = [sdk EXCEPT !.specificationRequested = FALSE, !.nextMessageID = @ + 1]
    /\ UNCHANGED <<popped, framePc, frame, eventLog,
                   poseVars, sceneVars, updateVars, appVars>>

\* The SDK answers one outstanding ovrAvatarAsset_BeginLoading.
DeliverAssetLoaded ==
    /\ Running
    /\ \E k \in 1..Len(pendingLoads) :
          /\ Enqueue("AssetLoaded", pendingLoads[k], NoAvatarSpec)
          /\ pendingLoads' = RemoveAt(pendingLoads, k)
    /\ sdk' = [sdk EXCEPT !.nextMessageID = @ + 1]
    /\ UNCHANGED <<popped, framePc, frame, eventLog,
                   poseVars, sceneVars, updateVars, _avatar, _loadingAssets, _assetMap, gl,
                   bindLog, drawLog, visitLog, crashed, callArgs, lastStored>>

\* The SDK posts a message of another type.
DeliverOther ==
    /\ Running
    /\ sdk.otherMessages < MaxOtherMessages
    /\ Enqueue("Other", 0, NoAvatarSpec)
    /\ sdk' = [sdk EXCEPT !.otherMessages = @ + 1, !.nextMessageID = @ + 1]
    /\ UNCHANGED <<popped, framePc, frame, eventLog,
                   poseVars, sceneVars, updateVars, appVars>>

\* The event log covers the frames 1..MaxFrames.
Record(events) ==
    eventLog' = IF frame > MaxFrames THEN eventLog ELSE eventLog \o events

\* while (!glfwWindowShouldClose(window)) { ++frame; glfwPollEvents(); ...
LoopTest ==
    /\ ~crashed
    /\ framePc = "loop"
    /\ \/ /\ frame < MaxFrames
          /\ frame' = frame + 1
          /\ framePc' = "update"
       \/ /\ framePc' = "closed"
          /\ frame' = frame
    /\ UNCHANGED <<messageQueue, popped, eventLog, sdk,
                   poseVars, sceneVars, updateVars, appVars>>

\* while (ovrAvatarMessage* message = ovrAvatarMessage_Pop()): the head of
\* the queue is taken off it; with nothing queued update() returns.
UpdatePop ==
    /\ ~crashed
    /\ framePc = "update"
    /\ IF messageQueue = <<>>
       THEN /\ framePc' = "draw"
            /\ Record(<<Event("empty", 0, "none")>>)
            /\ UNCHANGED <<messageQueue, popped>>
       ELSE /\ popped' = Head(messageQueue)
            /\ messageQueue' = Tail(messageQueue)
            /\ Record(<<Event("pop", Head(messageQueue).id, "none")>>)
            /\ framePc' = "dispatch"
    /\ UNCHANGED <<frame, sdk, poseVars, sceneVars, updateVars, appVars>>

\* The switch on the message type.
UpdateDispatch ==
    /\ ~crashed
    /\ framePc = "dispatch"
    /\ With(dispatch(AppNow, popped), LAMBDA a :
           /\ _avatar' = a.avatar
           /\ _loadingAssets' = a.loadingAssets
           /\ _assetMap' = a.assetMap
           /\ gl' = a.gl
           /\ lastStored' = a.lastStored
           /\ pendingLoads' = pendingLoads \o a.requests
           /\ Record(a.events))
    /\ framePc' = "free"
    /\ UNCHANGED <<messageQueue, popped, frame, sdk,
                   bindLog, drawLog, visitLog, crashed, callArgs, poseVars, sceneVars, updateVars>>

\* ovrAvatarMessage_Free(message), then the while condition again.
UpdateFree ==
    /\ ~crashed
    /\ framePc = "free"
    /\ Record(<<Event("free", popped.id, "none")>>)
    /\ popped' = NoMessage
    /\ framePc' = "update"
    /\ UNCHANGED <<messageQueue, frame, sdk, poseVars, sceneVars, updateVars, appVars>>

\* ovr::for_each_eye: the avatar is rendered once per eye, first-person mask.
renderEyes(m, ub, avatar) ==
    _renderAvatarHands(
        _renderAvatarHands(m, ub, avatar, ovrAvatarVisibilityFlag_FirstPerson),
        ub, avatar, ovrAvatarVisibilityFlag_FirstPerson)

\* Variant of the test that does not look at the outstanding loads.
avatarOnly(avatar, loading) == avatar.present

\* if (_avatar && !_loadingAssets)
avatarAndNotLoading(avatar, loading) == avatar.present /\ loading = 0

\* RiftApp::draw: the avatar, if there is one, is updated from the tracked
\* inputs; it is rendered if no load is outstanding.
Draw ==
    /\ ~crashed
    /\ framePc = "draw"
    /\ \E deltaSeconds \in 0..MaxDelta, ub \in UBOutcomes :
          /\ IF _avatar.present
             THEN /\ sdkCalls' = _updateAvatar(deltaSeconds, NoMic, NoPacket, 0).calls
                  /\ updateArgs' = [called |-> TRUE, deltaSeconds |-> deltaSeconds,
                                    mic |-> NoMic, packet |-> NoPacket,
                                    cursorBefore |-> packetPlaybackTime]
             ELSE UNCHANGED <<sdkCalls, updateArgs>>
          /\ IF avatarAndNotLoading(_avatar, _loadingAssets)
             THEN With(renderEyes(Machine(_assetMap, gl), ub, _avatar), LAMBDA m :
                      /\ _assetMap' = m.assetMap
                      /\ gl' = m.gl
                      /\ bindLog' = m.binds
                      /\ drawLog' = m.draws
                      /\ visitLog' = m.visits
                      /\ crashed' = m.crashed
                      /\ callArgs' = RenderArgs("part_000",
                                                ovrAvatarVisibilityFlag_FirstPerson, FALSE))
             ELSE UNCHANGED <<_assetMap, gl, bindLog, drawLog, visitLog, crashed,
                              callArgs>>
    /\ Record(<<Event("draw", 0, "none")>>)
    /\ framePc' = "finish"
    /\ UNCHANGED <<messageQueue, popped, frame, sdk,
                   _avatar, _loadingAssets, pendingLoads, lastStored,
                   packetPlaybackTime, poseVars, sceneVars>>

\* finishFrame: glfwSwapBuffers, then back to the loop condition.
FinishFrame ==
    /\ ~crashed
    /\ framePc = "finish"
    /\ framePc' = "loop"
    /\ UNCHANGED <<messageQueue, popped, frame, eventLog, sdk,
                   poseVars, sceneVars, updateVars, appVars>>

NextFrame ==
    \/ DeliverSpecification
    \/ DeliverAssetLoaded
    \/ DeliverOther
    \/ LoopTest
    \/ UpdatePop
    \/ UpdateDispatch
    \/ UpdateFree
    \/ Draw
    \/ FinishFrame

SpecFrame == InitFrame /\ [][NextFrame]_vars

(***************************************************************************)
(* SpecFrameLive: the frame loop of a window that is never closed, seen    *)
(* past the frames the event log covers: the frame counter stands at       *)
(* MaxFrames + 1 and the log stays empty, the loop itself goes on.  The    *)
(* main thread keeps taking its steps, and the SDK answers every           *)
(* ovrAvatarAsset_BeginLoading it has received.                            *)
(***************************************************************************)
InitFrameLive ==
    /\ IdlePose
    /\ IdleUpdate
    /\ IdleScene
    /\ _avatar = NoAvatar
    /\ _loadingAssets = 0
    /\ _assetMap = EmptyMap
    /\ gl = GlFresh
    /\ bindLog = <<>>
    /\ drawLog = <<>>
    /\ visitLog = <<>>
    /\ crashed = FALSE
    /\ callArgs = [called |-> "none"]
    /\ pendingLoads = <<>>
    /\ lastStored = EmptyMap
    /\ messageQueue = <<>>
    /\ popped = NoMessage
    /\ framePc = "loop"
    /\ frame = MaxFrames + 1
    /\ eventLog = <<>>
    /\ \E spec \in FrameSpecs :
          sdk = [specificationRequested |-> TRUE,
                 avatarSpec |-> spec,
                 nextMessageID |-> 1,
                 otherMessages |-> 0]

LoopTestLive ==
    /\ ~crashed
    /\ framePc = "loop"
    /\ frame' = IF frame > MaxFrames THEN frame ELSE frame + 1
    /\ framePc' = "update"
    /\ UNCHANGED <<messageQueue, popped, eventLog, sdk,
                   poseVars, sceneVars, updateVars, appVars>>

\* The steps of the thread that runs the loop.
FrameLoopStep ==
    \/ LoopTestLive
    \/ UpdatePop
    \/ UpdateDispatch
    \/ UpdateFree
    \/ Draw
    \/ FinishFrame

NextFrameLive ==
    \/ DeliverSpecification
    \/ DeliverAssetLoaded
    \/ DeliverOther
    \/ FrameLoopStep

FramePcs == {"loop", "update", "dispatch", "free", "draw", "finish"}

\* The main thread takes a step.  Every step of FrameLoopStep moves framePc
\* and no step of the SDK does; until the program crashes the thread always
\* has a next step, so this is FrameLoopStep with its enabling condition
\* written out.
MainThreadStep ==
    /\ ~crashed
    /\ framePc' \in FramePcs
    /\ framePc' # framePc

SpecFrameLive ==
    /\ InitFrameLive
    /\ [][NextFrameLive]_vars
    /\ WF_framePc(MainThreadStep)
    /\ WF_vars(DeliverAssetLoaded)

(***************************************************************************)
(* The game scene: ColorCubeScene, ExampleApp::renderScene and the part of *)
(* RiftApp::draw that reads the controllers.                               *)
(***************************************************************************)
\* Model(path, name): type is 1 for the name "O2", 0 otherwise.
Model(name) == [type |-> IF name = "O2" THEN 1 ELSE 0]

is_O2(model) == model.type # 0

co2_tmp == Model("CO2")

o2_tmp == Model("O2")

\* for (int i = 0; i < 5; i++) of the constructor
InitialMolecules == 5

\* co2_arr.size() - o2_arr.size() >= 10
LostMargin == 10

\* ColorCubeScene(): five CO2 molecules, no O2 yet.
ColorCubeScene == [co2_arr |-> [i \in 1..InitialMolecules |-> co2_tmp], o2_arr |-> <<>>]

\* a - b >= margin on size_t: a difference below zero wraps to a large value.
sizeDifferenceAtLeast(a, b, margin) == IF a < b THEN TRUE ELSE a - b >= margin

\* Variant of the test that spawns whenever the timer has run out.
spawnDueAlways(elapsed, w, l) == elapsed

\* if (duration > 1.5f && !win && !lost)
spawnDue(elapsed, w, l) == elapsed /\ ~w /\ ~l

\* The molecule loop of render from index i on: a CO2 molecule both rays
\* pass within reach of, with both triggers held, becomes an O2 molecule.
RECURSIVE convertFrom(_, _, _, _)
convertFrom(scene, i, aimed, triggers) ==
    IF i > Len(scene.co2_arr) THEN scene
    ELSE IF ~is_O2(scene.co2_arr[i]) /\ i \in aimed /\ triggers
         THEN convertFrom([co2_arr |-> [scene.co2_arr EXCEPT ![i] = o2_tmp],
                           o2_arr |-> Append(scene.o2_arr, o2_tmp)],
                          i + 1, aimed, triggers)
         ELSE convertFrom(scene, i + 1, aimed, triggers)

\* ColorCubeScene::render on the globals g: the two flag tests, the timed
\* spawn, then the loop (skipped when lost, drawing only when win).
render(g, elapsed, aimed) ==
    With(g.win \/ Len(g.scene.o2_arr) = Len(g.scene.co2_arr), LAMBDA w :
    With(g.lost \/ sizeDifferenceAtLeast(Len(g.scene.co2_arr), Len(g.scene.o2_arr),
                                         LostMargin), LAMBDA l :
    With(IF spawnDue(elapsed, w, l)
         THEN [g.scene EXCEPT !.co2_arr = Append(@, co2_tmp)]
         ELSE g.scene, LAMBDA spawned :
        [g EXCEPT !.win = w,
                  !.lost = l,
                  !.scene = IF l \/ w THEN spawned
                            ELSE convertFrom(spawned, 1, aimed,
                                             g.left_trig /\ g.right_trig)])))

\* ExampleApp::renderScene: the reset, then cubeScene->render.
renderScene(g, elapsed, aimed) ==
    IF (g.win \/ g.lost) /\ g.reset_flag
    THEN render([g EXCEPT !.win = FALSE, !.lost = FALSE, !.reset_flag = FALSE,
                          !.scene = ColorCubeScene],
                elapsed, aimed)
    ELSE render(g, elapsed, aimed)

SceneNow ==
    [win |-> win, lost |-> lost, reset_flag |-> reset_flag,
     left_trig |-> left_trig, right_trig |-> right_trig,
     scene |-> [co2_arr |-> co2_arr, o2_arr |-> o2_arr]]

(***************************************************************************)
(* SpecScene: RiftApp::draw frame after frame, with or without an avatar:  *)
(* the controllers are read, then the scene is rendered for each eye.      *)
(***************************************************************************)
ButtonMasks == {0, 1}

\* The molecule, if any, of the first n that both controller rays pass
\* within reach of during one render.
AimedSets(n) == {{}} \cup {{i} : i \in 1..n}

InitScene ==
    /\ IdlePose
    /\ IdleUpdate
    /\ IdleFrame
    /\ _avatar \in {NoAvatar, [present |-> TRUE, components |-> <<>>]}
    /\ _loadingAssets = 0
    /\ _assetMap = EmptyMap
    /\ gl = GlFresh
    /\ bindLog = <<>>
    /\ drawLog = <<>>
    /\ visitLog = <<>>
    /\ crashed = FALSE
    /\ callArgs = [called |-> "none"]
    /\ pendingLoads = <<>>
    /\ lastStored = EmptyMap
    /\ win = FALSE
    /\ lost = FALSE
    /\ reset_flag = FALSE
    /\ left_trig = FALSE
    /\ right_trig = FALSE
    /\ buttonMask = <<0, 0>>
    /\ co2_arr = ColorCubeScene.co2_arr
    /\ o2_arr = ColorCubeScene.o2_arr
    /\ scenePc = "draw"

\* RiftApp::draw up to the eye loop: with an avatar, a pressed button raises
\* reset_flag once the game is over, and the index triggers set the two
\* trigger flags.
ReadControllers ==
    /\ scenePc = "draw"
    /\ \E left \in ButtonMasks, right \in ButtonMasks,
          leftIndexTrigger \in BOOLEAN, rightIndexTrigger \in BOOLEAN :
          IF _avatar.present
          THEN /\ buttonMask' = <<left, right>>
               /\ reset_flag' = IF (left # 0 \/ right # 0) /\ (win \/ lost)
                                 THEN TRUE ELSE reset_flag
               /\ left_trig' = leftIndexTrigger
               /\ right_trig' = rightIndexTrigger
          ELSE UNCHANGED <<buttonMask, reset_flag, left_trig, right_trig>>
    /\ scenePc' = "left"
    /\ UNCHANGED <<win, lost, co2_arr, o2_arr, poseVars, updateVars, appVars, frameVars>>

\* ovr::for_each_eye: renderScene(_eyeProjections[eye], ...) for one eye.
RenderSceneCall ==
    /\ scenePc \in {"left", "right"}
    /\ \E elapsed \in BOOLEAN, aimed \in AimedSets(Len(co2_arr) + 1) :
          /\ elapsed => Len(co2_arr) < MaxMolecules
          /\ With(renderScene(SceneNow, elapsed, aimed), LAMBDA g :
                 /\ win' = g.win
                 /\ lost' = g.lost
                 /\ reset_flag' = g.reset_flag
                 /\ co2_arr' = g.scene.co2_arr
                 /\ o2_arr' = g.scene.o2_arr)
    /\ scenePc' = IF scenePc = "left" THEN "right" ELSE "draw"
    /\ UNCHANGED <<left_trig, right_trig, buttonMask, poseVars, updateVars, appVars,
                   frameVars>>

NextScene ==
    \/ ReadControllers
    \/ RenderSceneCall

SpecScene == InitScene /\ [][NextScene]_vars

\* The O2 molecules among those of the scene.
ConvertedMolecules == {i \in 1..Len(co2_arr) : is_O2(co2_arr[i])}

\* A step that clears a flag that was set.
SceneReset == (win \/ lost) /\ ~win' /\ ~lost'

\* C30: win and lost are never both true and the converted (O2) molecules
\* are never more than the molecules; once win or lost is set no molecule
\* is spawned or converted until a reset; a reset (both flags cleared, new
\* scene) happens only when win or lost is set and reset_flag is raised, and
\* reset_flag is raised only by a controller button pressed while win or
\* lost is set.
C30_GameFlags ==
    /\ [](/\ ~(win /\ lost)
          /\ Len(o2_arr) = Cardinality(ConvertedMolecules)
          /\ Len(o2_arr) <= Len(co2_arr))
    /\ [][((win \/ lost) /\ ~SceneReset) =>
              (co2_arr' = co2_arr /\ o2_arr' = o2_arr)]_vars
    /\ [][SceneReset =>
              /\ reset_flag
              /\ ~reset_flag'
              /\ Len(co2_arr') \in {InitialMolecules, InitialMolecules + 1}
              /\ Len(o2_arr') <= 1]_vars
    /\ [][(reset_flag' /\ ~reset_flag) =>
              /\ win \/ lost
              /\ scenePc = "draw"
              /\ buttonMask' # <<0, 0>>]_vars

\* Every molecule, the spawned ones included, was converted, the next render
\* set win, and a button pressed in the frame after it raised reset_flag.
C30_Witness ==
    /\ win
    /\ ~lost
    /\ reset_flag
    /\ buttonMask # <<0, 0>>
    /\ Len(co2_arr) > InitialMolecules
    /\ Len(o2_arr) = Len(co2_arr)
    /\ scenePc = "left"

EventsAt(event) == {k \in 1..Len(eventLog) : eventLog[k].event = event}

EventsOf(event, id) == {k \in EventsAt(event) : eventLog[k].id = id}

\* The asset ids a render part names: its mesh, its single maps and layers,
\* or its PBS textures (0 stands for no texture).
MaterialAssetRefs(state) ==
    ({state.alphaMaskTextureID, state.normalMapTextureID,
      state.parallaxMapTextureID, state.roughnessMapTextureID}
     \cup {state.layers[i].sampleTexture : i \in 1..state.layerCount}) \ {0}

PartAssetRefs(part) ==
    CASE part.type = "SkinnedMeshRender" ->
             {part.meshAssetID} \cup MaterialAssetRefs(part.materialState)
      [] part.type = "SkinnedMeshRenderPBS" ->
             {part.meshAssetID}
             \cup ({part.albedoTextureAssetID, part.surfaceTextureAssetID} \ {0})
      [] part.type = "ProjectorRender" -> MaterialAssetRefs(part.materialState)
      [] OTHER -> {}

\* Asset ids whose asset-loaded message has been handled, by asset type.
HandledOfType(types) == {id \in DOMAIN lastStored : AssetOf(id).type \in types}

\* C11: an asset-loaded message whose asset is neither a mesh nor a texture
\* creates no GPU resource (no vertex array or texture name is generated
\* for it) and raises no error, a later lookup of its id yields no
\* resource, and rendering a part that names that id does not crash.
C11_UnknownAssetHarmless ==
    /\ gl.nextVertexArray = 1 + Cardinality(HandledOfType({"Mesh"}))
    /\ gl.nextTexture = 1 + Cardinality(HandledOfType({"Texture"}))
    /\ \A id \in HandledOfType({"Other"}) :
          /\ lastStored[id] = NullPtr
          /\ ~HasResource(_assetMap, id)
          /\ (/\ callArgs.called = "_renderAvatar"
              /\ \E tag \in TraversedParts(_avatar, callArgs.build) :
                    id \in PartAssetRefs(RenderPartAt(_avatar, tag[1], tag[2])))
                => ~crashed

\* The step of update() that hands an avatar-specification message to its
\* handler.
HandlesSpecification ==
    /\ framePc = "dispatch"
    /\ framePc' = "free"
    /\ popped.type = "AvatarSpecification"

\* C20: handling an avatar-specification message sets _avatar to the avatar
\* created from the specification, issues one BeginLoading request for
\* each referenced-asset index 0..refCount-1, in index order and nothing
\* else, and increases _loadingAssets by exactly refCount.
C20_SpecificationStartsLoads ==
    [][HandlesSpecification =>
          LET refs == popped.avatarSpec.referencedAssets
          IN  /\ _avatar' = popped.avatarSpec.avatar
              /\ pendingLoads' = pendingLoads \o refs
              /\ _loadingAssets' = _loadingAssets + Len(refs)]_vars

\* The specification naming asset 1 twice has been handled: two requests
\* for asset 1 are out and two loads are counted.
C20_Witness ==
    /\ framePc = "free"
    /\ popped.present
    /\ popped.type = "AvatarSpecification"
    /\ popped.avatarSpec.referencedAssets = <<1, 1>>
    /\ _avatar = popped.avatarSpec.avatar
    /\ pendingLoads = <<1, 1>>
    /\ _loadingAssets = 2

\* _avatar is assigned by _handleAvatarSpecification and nowhere else.
SpecificationHandled == _avatar.present

\* Every asset of the specification is a mesh or a texture.
ReferencedAssetsLoadable ==
    \A i \in 1..Len(sdk.avatarSpec.referencedAssets) :
        AssetOf(sdk.avatarSpec.referencedAssets[i]).type \in {"Mesh", "Texture"}

AvatarRendered == _loadingAssets = 0 /\ callArgs.called = "_renderAvatar"

\* C29: once the avatar-specification message has been handled, and with
\* every requested load answered by one asset-loaded message, _loadingAssets
\* eventually returns to zero and a later frame calls _renderAvatar, as long
\* as the frame loop keeps running; the call returns when every referenced
\* asset is a mesh or a texture.
C29_EventuallyRendered ==
    /\ SpecificationHandled ~> AvatarRendered
    /\ (SpecificationHandled /\ ReferencedAssetsLoadable) ~> (AvatarRendered /\ ~crashed)

\* Both assets of the second specification were requested, answered and
\* handled, and a later frame drew the hand.
C29_Witness ==
    /\ sdk.avatarSpec.referencedAssets = <<1, 3>>
    /\ SpecificationHandled
    /\ pendingLoads = <<>>
    /\ messageQueue = <<>>
    /\ DOMAIN _assetMap = {1, 3}
    /\ AvatarRendered
    /\ drawLog # <<>>
    /\ ~crashed

\* A step that renders the avatar or part of it: a draw routine was entered
\* or a draw call, a texture binding or a render call was recorded.
RenderStep ==
    \/ drawLog' # drawLog
    \/ visitLog' # visitLog
    \/ bindLog' # bindLog
    \/ callArgs' # callArgs

\* C25: in the frame loop _renderAvatar is invoked only when an avatar
\* exists and _loadingAssets is zero; while a requested load is outstanding
\* no step issues an avatar draw call.
C25_RenderOnlyWhenLoaded ==
    [][RenderStep => (_avatar.present /\ _loadingAssets = 0)]_vars

\* A frame has rendered the avatar with draw calls after all loads were
\* handled, and an earlier frame went through draw() with a load outstanding.
C25_Witness ==
    /\ framePc = "finish"
    /\ callArgs.called = "_renderAvatar"
    /\ drawLog # <<>>
    /\ _loadingAssets = 0
    /\ \E d \in EventsAt("draw"), h \in EventsAt("handle") :
          /\ eventLog[h].handler = "_handleAssetLoaded"
          /\ eventLog[h].frame > eventLog[d].frame
          /\ \E g \in EventsAt("handle") :
                /\ eventLog[g].handler = "_handleAvatarSpecification"
                /\ eventLog[g].frame <= eventLog[d].frame

\* ovrAvatarAsset_BeginLoading calls the SDK has received: those it has not
\* answered yet and those it has answered with an asset-loaded message.
LoadsRequested ==
    Len(pendingLoads)
        + ((sdk.nextMessageID - 1) - sdk.otherMessages
           - (IF sdk.specificationRequested THEN 0 ELSE 1))

\* Asset-loaded messages handled so far.
LoadsHandled ==
    Cardinality({k \in EventsAt("handle") : eventLog[k].handler = "_handleAssetLoaded"})

\* C26: after any sequence of specification and asset-loaded messages
\* _loadingAssets is the number of BeginLoading requests issued minus the
\* number of asset-loaded messages handled, and it is not negative when
\* every asset-loaded message answers a distinct earlier request.
C26_LoadingAssetsCount ==
    /\ _loadingAssets = LoadsRequested - LoadsHandled
    /\ _loadingAssets >= 0

\* Two loads were requested and one of them has been handled.
C26_Witness ==
    /\ LoadsRequested = 2
    /\ LoadsHandled = 1
    /\ _loadingAssets = 1

\* C10: in every frame update() pops messages until the queue reports
\* empty; each popped message goes to at most one handler, once, and is
\* freed once, in the frame it was popped in; all of this is over before
\* the frame's draw; no message is popped or handled twice, in this frame
\* or a later one.
C10_DrainBeforeDraw ==
    /\ \A k \in EventsAt("pop") :
          LET id == eventLog[k].id
              frees == EventsOf("free", id)
              handles == EventsOf("handle", id)
              held == popped.present /\ popped.id = id
          IN  /\ EventsOf("pop", id) = {k}
              /\ Cardinality(handles) <= 1
              /\ \A h \in handles : h > k /\ eventLog[h].frame = eventLog[k].frame
              /\ IF held
                 THEN frees = {} /\ framePc \in {"dispatch", "free"}
                 ELSE /\ Cardinality(frees) = 1
                      /\ \A q \in frees :
                            /\ q > k
                            /\ eventLog[q].frame = eventLog[k].frame
                            /\ \A h \in handles : h < q
    /\ \A d \in EventsAt("draw") :
          /\ d > 1
          /\ eventLog[d - 1].event = "empty"
          /\ eventLog[d - 1].frame = eventLog[d].frame
          /\ \A k \in EventsAt("pop") :
                k < d => \E q \in EventsOf("free", eventLog[k].id) : q < d
    /\ framePc \in {"draw", "finish", "loop", "closed"} => ~popped.present
    /\ framePc = "draw" => eventLog[Len(eventLog)].event = "empty"

\* Second frame drawn with the avatar rendered: the specification and an
\* asset-loaded message were handled in different frames, and a message of
\* another type was popped and freed without a handler.
C10_Witness ==
    /\ framePc = "finish"
    /\ frame >= 2
    /\ drawLog # <<>>
    /\ \E h1, h2 \in EventsAt("handle") :
          /\ eventLog[h1].handler = "_handleAvatarSpecification"
          /\ eventLog[h2].handler = "_handleAssetLoaded"
          /\ eventLog[h1].frame < eventLog[h2].frame
    /\ \E k \in EventsAt("pop") :
          /\ EventsOf("handle", eventLog[k].id) = {}
          /\ EventsOf("free", eventLog[k].id) # {}

====
